---- MODULE Spec2Model ----
(***************************************************************************)
(* Copy-trading core of obscura-v2: the Trade/Position Monitor, the        *)
(* Copy-Trading Engine, the Trading Orchestrator and the FIFO P&L /        *)
(* Reputation engine, each as a state machine translated from its source.  *)
(* Every component has its own specifications (SpecMonitor, SpecPositions, *)
(* SpecBatch, SpecScope, SpecPolling, SpecSessions, SpecAddRace,           *)
(* SpecStartStop, SpecRemove, SpecStall, SpecEventId, SpecBus, SpecEngine, *)
(* SpecSizing, SpecFanout, SpecTasks, SpecFill, SpecSubscriptions,         *)
(* SpecService, SpecOrch, SpecPnl, SpecCalc); the variables of the other   *)
(* components stay put.                                                    *)
(***************************************************************************)
EXTENDS Integers, Sequences, FiniteSets, TLC

VARIABLES
    \* ---- TradeMonitor (modules/copy_trading/monitor.py)
    now,            \* wall clock, seconds (datetime.utcnow / the Redis clock)
    cache,          \* the Redis key space: key -> [value, expires]
    published,      \* the messages handed to redis.publish_event by the call just made
    last_emit,      \* history: (venue, order_id, status) -> when an event for it was last published
    loop_ids,       \* session ids still to be checked in this loop iteration
    phase,          \* where _check_activity stands: "orders" | "positions"
    ticks,          \* loop iterations finished
    ord_obs,        \* the _check_orders call just made: the orders it was given
    pos_obs,        \* the _check_positions call just made: one entry per position
    \* ---- CopyTradingEngine (modules/copy_trading/engine.py)
    bus,            \* events published on trade_events:*, by event_id
    delivered,      \* event_id -> times pubsub.get_message returned the event
    configs,        \* copy_trading_configs rows, by follower_rel_id
    replica_orders, \* replica orders placed by connector.create_order, in order
    follower_rows,  \* followers rows, in the order the query returns them
    eng_obs,        \* the _process_trade_event call just made: its event, what each
                    \* follower's side did, and the orders and counts before it
    \* ---- TradingOrchestrator (modules/trading/exchanges/orchestrator.py)
    exchanges,              \* self.exchanges: the registered names, in dict order
    initialized_exchanges,  \* self.initialized_exchanges: the list, as appended
    adds,                   \* add_exchange calls made
    orch_call,              \* the orchestrator call just made: operation, arguments, venue replies
    orch_result,            \* what that call returned or raised, and the adapter calls it made
    \* ---- PnLCalculator (modules/trading/pnl_calculator.py)
    executions,     \* the TradeExecution list handed to the calculator, in timestamp order
    pnl_positions,  \* self.positions: symbol -> open lots, oldest first
    closed_trades,  \* the ClosedTrade list _process_executions returned
    scores,         \* the ReputationScore of each _calculate_metrics call, in call order
    utcnow,         \* datetime.utcnow(), seconds
    pnl_pc,         \* "input" before _process_executions has run, "closed" after
    \* ---- OrderExecutionService (shared/services/order_execution_service.py)
    service_exchanges,  \* self.exchanges: exchange_id -> the credentials its instance was built with
    service_orders,     \* the exchange.create_order calls made, in order
    \* ---- TradeMonitor, its sessions and its loop task (monitor.py:93-294)
    monitoring_sessions,  \* monitoring_sessions rows, by id: trader, exchange, is_active, connection_status
    connectors,           \* self.connectors, in dict order: (session_id, adapter)
    active_sessions,      \* self.active_sessions: the session ids it holds
    adapters,             \* the UniversalConnector instances built, by number: initialized, closed
    _monitoring,          \* self._monitoring
    _monitor_task,        \* self._monitor_task: "none" | "running" | "cancelled"
    session_ids,          \* session ids the current loop iteration has still to check
    tick_snapshot,        \* list(self.connectors.keys()) as the current iteration took it
    checked,              \* session ids _check_activity has run on in the current iteration
    tick_raised,          \* those of them for which a fetch raised
    last_raised,          \* the session ids for which a fetch raised in the iteration before
    poll_ticks,           \* loop iterations started
    mon_call,             \* the add_session / stop_monitoring call just made
    \* ---- add_session calls in progress (monitor.py:131-160)
    adds_in_flight, \* trader -> add_session calls whose select found no active row and that have not inserted yet
    \* ---- event bus (Redis pub/sub) between monitor and engine
    listener,  \* _event_listener task: "none", "created" or "subscribed"
    pubsub_buffer,  \* messages the subscription holds for get_message
    publish_log,  \* one record per _publish_event call of the monitor
    listener_got, \* event ids the listener took with get_message
    \* ---- followers and copy_trading_configs tables (SubscriptionRepository)
    followers_table,  \* rows of followers
    configs_table,  \* rows of copy_trading_configs
    sub_call, \* the SubscriptionRepository call just made
    \* ---- venue calls of the monitoring loop in flight
    call_phase,  \* the fetch _check_activity awaits: "idle", "orders" or "positions"
    never_returns,  \* session ids whose venue never answers
    waited,  \* loop iterations of the event loop spent awaiting the call
    last_polled, \* session id whose _check_activity just completed, else 0
    \* ---- event ids made by the monitor for two observations
    id_inputs,  \* the two observations: [kind, session, item, t]
    id_events, \* the TradeEvents created for them
    \* ---- the engine's event tasks running concurrently
    listener_queue,  \* events the subscription holds, in the order the bus delivered them
    event_tasks,  \* one _process_trade_event task per received event
    copied_counts,  \* copy_trading_configs.total_copied_trades, by follower relationship
    venue_orders, \* replica orders in the order the venues took them
    \* ---- position fingerprints the monitor has observed
    seen_state, \* by pos_state key, the fingerprint of the latest observation, kept for good
    \* ---- PnLCalculator called on raw trade records
    raw_trades,  \* the raw trades handed to the calculator, as first given
    calc_positions,  \* self.positions of the calculator instance
    calc_results, \* what each call returned, in order
    \* ---- TradeMonitor.start_monitoring / stop_monitoring as interleaved coroutines
    start_calls,  \* start_monitoring calls made so far
    starts_waiting,  \* start_monitoring calls suspended at await self._load_active_sessions()
    loop_tasks,  \* the _monitoring_loop tasks created: [state, pc]
    task_ref,  \* self._monitor_task: index in loop_tasks, 0 for None
    loaded,  \* self.connectors holds the connector of the active session
    venue_polls,  \* fetch_orders / fetch_positions calls made by the loops
    stop_returned, \* a stop_monitoring returned and no start_monitoring was called since
    \* ---- TradeMonitor._check_activity suspended at its venue calls
    check_pc,  \* where the loop task is inside _check_activity
    check_session,  \* the session id _check_activity was called with
    events_for,  \* TradeEvents published per session id
    calls_for  \* fetch_orders / fetch_positions calls made on the adapter of each session id

monVars == <<now, cache, published, last_emit, loop_ids, phase, ticks, ord_obs, pos_obs>>

engVars == <<bus, delivered, configs, replica_orders, follower_rows, eng_obs>>

orchVars == <<exchanges, initialized_exchanges, adds, orch_call, orch_result>>

pnlVars == <<executions, pnl_positions, closed_trades, scores, utcnow, pnl_pc>>

svcVars == <<service_exchanges, service_orders>>

sessVars == <<monitoring_sessions, connectors, active_sessions, adapters, _monitoring, _monitor_task, session_ids, tick_snapshot, checked, tick_raised, last_raised, poll_ticks, mon_call>>

raceVars == <<adds_in_flight>>

busVars == <<listener, pubsub_buffer, publish_log, listener_got>>

subVars == <<followers_table, configs_table, sub_call>>

stallVars == <<call_phase, never_returns, waited, last_polled>>

idVars == <<id_inputs, id_events>>

taskVars == <<listener_queue, event_tasks, copied_counts, venue_orders>>

fpVars == <<seen_state>>

calcVars == <<raw_trades, calc_positions, calc_results>>

loopVars == <<start_calls, starts_waiting, loop_tasks, task_ref, loaded, venue_polls, stop_returned>>

checkVars == <<check_pc, check_session, events_for, calls_for>>

vars == <<now, cache, published, last_emit, loop_ids, phase, ticks, ord_obs, pos_obs,
          bus, delivered, configs, replica_orders, follower_rows, eng_obs,
          exchanges, initialized_exchanges, adds, orch_call, orch_result,
          executions, pnl_positions, closed_trades, scores, utcnow, pnl_pc,
          service_exchanges, service_orders,
          monitoring_sessions, connectors, active_sessions, adapters, _monitoring,
          _monitor_task, session_ids, tick_snapshot, checked, tick_raised, last_raised,
          poll_ticks, mon_call,
          adds_in_flight,
          listener, pubsub_buffer, publish_log, listener_got,
          followers_table, configs_table, sub_call,
          call_phase, never_returns, waited, last_polled,
          id_inputs, id_events,
          listener_queue, event_tasks, copied_counts, venue_orders,
          seen_state,
          raw_trades, calc_positions, calc_results,
          start_calls, starts_waiting, loop_tasks, task_ref, loaded, venue_polls, stop_returned,
          check_pc, check_session, events_for, calls_for>>

None == "None"

(***************************************************************************)
(* Bounds of the model                                                     *)
(***************************************************************************)
MaxTicks == 2
MaxEvents == 2
MaxDeliveries == 2
MaxAdds == 3
MaxExecs == 3
MaxCalls == 2
MaxFanouts == 1
MaxServiceOrders == 3
MaxConnectors == 2

(***************************************************************************)
(* TradeMonitor                                                            *)
(***************************************************************************)
_poll_interval == 5
ProcessedEventTTL == 3600
PosStateTTL == 86400

\* Latency added to one loop iteration beyond the sleep (the venue calls are
\* awaited and take as long as they take): none, or up to the end of a
\* retention window.
OrderDelays == {0, ProcessedEventTTL - _poll_interval}

PositionDelays == {0, PosStateTTL - _poll_interval}


\* MonitoringSession rows the monitor holds a connector for, in the order of
\* the connectors dict: id -> (trader_id, exchange, symbols allow-list).
SessionIds == <<"s1", "s2">>

MonitoringSession(id) ==
    CASE id = "s1" -> [id |-> "s1", trader_id |-> "t1", exchange |-> "binance",
                       symbols |-> {}]
      [] OTHER     -> [id |-> "s2", trader_id |-> "t2", exchange |-> "kraken",
                       symbols |-> {"BTC/USDT"}]

\* What a venue may return from fetch_orders: ccxt order structures.
Order(id, symbol, status, filled) ==
    [id |-> id, symbol |-> symbol, status |-> status, filled |-> filled,
     side |-> "buy", type |-> "limit", amount |-> 2, price |-> 100]

OrderUniverse ==
    { Order("o1", "BTC/USDT", "open", 1),
      Order("o1", "BTC/USDT", "closed", 2),
      Order("o2", "ETH/USDT", "canceled", 0) }

OrderBatches ==
    {<<>>} \cup {<<o>> : o \in OrderUniverse}
           \cup {<<o1, o2>> : o1 \in OrderUniverse, o2 \in OrderUniverse}

\* What a venue may return from fetch_positions: ccxt position structures
\* ('contracts', 'entryPrice'; ccxt positions carry no 'amount' key).
Position(symbol, contracts, entryPrice) ==
    [symbol |-> symbol, contracts |-> contracts, entryPrice |-> entryPrice,
     amount |-> 0, side |-> "long"]

PositionUniverse ==
    { Position("BTC/USDT", 1, 100), Position("BTC/USDT", 1, 110),
      Position("BTC/USDT", 0, 100), Position("ETH/USDT", 1, 100) }

PositionBatches ==
    {<<>>} \cup {<<p>> : p \in PositionUniverse}
           \cup {<<p1, p2>> : p1 \in PositionUniverse, p2 \in PositionUniverse}

\* RedisService.get_cached / set_cached: a key space with per-key expiry.
get_cached(c, key, t) ==
    IF key \in DOMAIN c /\ c[key].expires > t THEN c[key].value ELSE None

set_cached(c, key, value, ttl, t) ==
    [k \in DOMAIN c \cup {key} |->
        IF k = key THEN [value |-> value, expires |-> t + ttl] ELSE c[k]]

\* Redis drops a key when its time to live has run out.
expire_keys(c, t) ==
    [k \in {x \in DOMAIN c : c[x].expires > t} |-> c[k]]

\* TradeMonitor._publish_event: the message put on the trader's channel.
_publish_event(event) ==
    [channel |-> "trade_events:" \o event.trader_id, data |-> event]

\* TradeMonitor._create_order_event
_create_order_event(session_obj, order, t) ==
    [event_id        |-> "evt_" \o order.id \o "_" \o ToString(t),
     event_type      |-> IF order.status = "closed" THEN "order_filled"
                         ELSE IF order.status = "canceled" THEN "order_canceled"
                         ELSE IF order.filled > 0 THEN "order_partially_filled"
                         ELSE "order_placed",
     trader_id       |-> session_obj.trader_id,
     exchange        |-> session_obj.exchange,
     symbol          |-> order.symbol,
     side            |-> order.side,
     order_type      |-> order.type,
     quantity        |-> order.amount,
     price           |-> order.price,
     filled_quantity |-> order.filled,
     timestamp       |-> t,
     order_id        |-> order.id,
     raw_status      |-> order.status]

\* _create_position_event testing the size before is_new.
_create_position_event_size_first(session_obj, position, is_new, t) ==
    LET current_size == IF position.contracts # 0 THEN position.contracts
                        ELSE position.amount
        abs_size == IF current_size < 0 THEN -current_size ELSE current_size
    IN  [event_id        |-> "pos_" \o session_obj.exchange \o "_"
                                \o position.symbol \o "_" \o ToString(t),
         event_type      |-> IF current_size = 0 THEN "position_closed"
                             ELSE IF is_new THEN "position_opened"
                             ELSE "position_updated",
         trader_id       |-> session_obj.trader_id,
         exchange        |-> session_obj.exchange,
         symbol          |-> position.symbol,
         side            |-> position.side,
         order_type      |-> "position",
         quantity        |-> abs_size,
         price           |-> position.entryPrice,
         filled_quantity |-> abs_size,
         timestamp       |-> t,
         order_id        |-> "pos_" \o position.symbol,
         raw_status      |-> "position"]

\* TradeMonitor._create_position_event
_create_position_event(session_obj, position, is_new, t) ==
    LET current_size == IF position.contracts # 0 THEN position.contracts
                        ELSE position.amount
        abs_size == IF current_size < 0 THEN -current_size ELSE current_size
    IN  [event_id        |-> "pos_" \o session_obj.exchange \o "_"
                                \o position.symbol \o "_" \o ToString(t),
         event_type      |-> IF is_new THEN "position_opened"
                             ELSE IF current_size = 0 THEN "position_closed"
                             ELSE "position_updated",
         trader_id       |-> session_obj.trader_id,
         exchange        |-> session_obj.exchange,
         symbol          |-> position.symbol,
         side            |-> position.side,
         order_type      |-> "position",
         quantity        |-> abs_size,
         price           |-> position.entryPrice,
         filled_quantity |-> abs_size,
         timestamp       |-> t,
         order_id        |-> "pos_" \o position.symbol,
         raw_status      |-> "position"]

\* A dedup key that leaves the status out.
processed_event_key_no_status(exchange, order_id, status) ==
    "processed_event:" \o exchange \o "_" \o order_id

\* The dedup key of an order: f"{exchange}_{order['id']}_{order['status']}".
processed_event_key(exchange, order_id, status) ==
    "processed_event:" \o exchange \o "_" \o order_id \o "_" \o status

\* The keys of an order that _check_orders and _create_order_event read with
\* order[...]: a missing one raises KeyError.
has_keys(order, keys) == keys \subseteq DOMAIN order

\* The loop of _check_orders over the fetched orders, from the i-th on;
\* st = [cache, published]. An order that raises (a key read with order[...]
\* is missing) ends the loop: the try/except is around the whole loop.
RECURSIVE check_orders_loop(_, _, _, _, _)
check_orders_loop(session_obj, orders, i, st, t) ==
    IF i > Len(orders) THEN st
    ELSE
      LET order == orders[i]
          key == processed_event_key(session_obj.exchange, order.id, order.status)
      IN  IF ~has_keys(order, {"id", "status"})
          THEN st
          ELSE IF get_cached(st.cache, key, t) # None
          THEN check_orders_loop(session_obj, orders, i + 1, st, t)
          ELSE IF session_obj.symbols # {} /\ ~has_keys(order, {"symbol"})
          THEN st
          ELSE IF session_obj.symbols # {} /\ order.symbol \notin session_obj.symbols
          THEN check_orders_loop(session_obj, orders, i + 1, st, t)
          ELSE IF ~has_keys(order, {"symbol", "side"})
          THEN st
          ELSE check_orders_loop(session_obj, orders, i + 1,
                 [cache |-> set_cached(st.cache, key, "1", ProcessedEventTTL, t),
                  published |-> Append(st.published,
                      _publish_event(_create_order_event(session_obj, order, t)))],
                 t)

\* The position fingerprint: f"{symbol}_{contracts}_{entryPrice}".
pos_state(position) ==
    position.symbol \o "_" \o ToString(position.contracts) \o "_"
        \o ToString(position.entryPrice)

last_state_key(session_obj, symbol) ==
    "pos_state:" \o session_obj.trader_id \o ":" \o session_obj.exchange
        \o ":" \o symbol

\* The loop of _check_positions over the fetched positions, from the i-th on;
\* st = [cache, published, obs]; obs records, per position that passed the
\* symbol filter, the fingerprint found in the cache and the event published.
RECURSIVE check_positions_loop(_, _, _, _, _)
check_positions_loop(session_obj, positions, i, st, t) ==
    IF i > Len(positions) THEN st
    ELSE
      LET position == positions[i]
          symbol == position.symbol
          key == last_state_key(session_obj, symbol)
          last_state == get_cached(st.cache, key, t)
          event == _create_position_event(session_obj, position,
                                          last_state = None, t)
      IN  IF session_obj.symbols # {} /\ symbol \notin session_obj.symbols
          THEN check_positions_loop(session_obj, positions, i + 1, st, t)
          ELSE IF last_state # pos_state(position)
          THEN check_positions_loop(session_obj, positions, i + 1,
                 [cache |-> set_cached(st.cache, key, pos_state(position),
                                       PosStateTTL, t),
                  published |-> Append(st.published, _publish_event(event)),
                  obs |-> Append(st.obs,
                      [key |-> key, last_state |-> last_state,
                       position |-> position, emitted |-> event.event_type])],
                 t)
          ELSE check_positions_loop(session_obj, positions, i + 1,
                 [st EXCEPT !.obs = Append(@,
                      [key |-> key, last_state |-> last_state,
                       position |-> position, emitted |-> None])],
                 t)

\* seen_state after the observations obs of one _check_positions call.
RECURSIVE RecordStates(_, _)
RecordStates(seen, obs) ==
    IF obs = <<>> THEN seen
    ELSE LET k == Head(obs).key
         IN  RecordStates([x \in DOMAIN seen \cup {k} |->
                              IF x = k THEN pos_state(Head(obs).position) ELSE seen[x]],
                          Tail(obs))

\* A venue with no order history, a venue with no open position.
NoOrderBatches == {<<>>}

NoPositionBatches == {<<>>}

\* The (venue, order_id, status) a published order event was built from.
EventKey(event) == <<event.exchange, event.order_id, event.raw_status>>

\* last_emit after the messages msgs were published at time t.
RECURSIVE RecordEmits(_, _, _)
RecordEmits(le, msgs, t) ==
    IF msgs = <<>> THEN le
    ELSE LET k == EventKey(Head(msgs).data)
         IN  RecordEmits([x \in DOMAIN le \cup {k} |-> IF x = k THEN t ELSE le[x]],
                         Tail(msgs), t)

\* followers rows, in the order the query returns them.
FollowerRows ==
    << [id |-> "f1", trader_id |-> "t1", follower_id |-> "u1",
        is_active |-> TRUE, is_copying |-> TRUE],
       [id |-> "f2", trader_id |-> "t1", follower_id |-> "u2",
        is_active |-> TRUE, is_copying |-> TRUE],
       [id |-> "f3", trader_id |-> "t1", follower_id |-> "u3",
        is_active |-> TRUE, is_copying |-> FALSE] >>

\* No _process_trade_event call made yet.
NoDelivery == [event_id |-> ""]

\* The engine before anything was published.
EngIdle ==
    /\ bus = {}
    /\ delivered = [e \in {} |-> 0]
    /\ configs = [f \in {} |-> 0]
    /\ replica_orders = <<>>
    /\ follower_rows = FollowerRows
    /\ eng_obs = NoDelivery

\* The monitor as constructed, its loop about to check the first session.
MonIdle ==
    /\ now = 0
    /\ cache = [k \in {} |-> [value |-> None, expires |-> 0]]
    /\ published = <<>>
    /\ last_emit = [k \in {} |-> 0]
    /\ loop_ids = SessionIds
    /\ phase = "orders"
    /\ ticks = 0
    /\ ord_obs = <<>>
    /\ pos_obs = <<>>

\* No orchestrator call made; the record of a call and of its result.
NoCall == [op |-> "idle"]

\* The orchestrator as constructed: no venue registered.
OrchIdle ==
    /\ exchanges = <<>>
    /\ initialized_exchanges = <<>>
    /\ adds = 0
    /\ orch_call = NoCall
    /\ orch_result = NoCall

\* The calculator as constructed, nothing handed to it.
PnlIdle ==
    /\ executions = <<>>
    /\ pnl_positions = [s \in {} |-> <<>>]
    /\ closed_trades = <<>>
    /\ scores = <<>>
    /\ utcnow = 0
    /\ pnl_pc = "input"

\* The execution service as constructed: no exchange instance yet.
SvcIdle ==
    /\ service_exchanges = [x \in {} |-> 0]
    /\ service_orders = <<>>

\* The monitor as constructed: no session, no connector, no loop task.
SessIdle ==
    /\ monitoring_sessions = <<>>
    /\ connectors = <<>>
    /\ active_sessions = {}
    /\ adapters = <<>>
    /\ _monitoring = FALSE
    /\ _monitor_task = "none"
    /\ session_ids = <<>>
    /\ tick_snapshot = <<>>
    /\ checked = {}
    /\ tick_raised = {}
    /\ last_raised = {}
    /\ poll_ticks = 0
    /\ mon_call = NoCall

RaceIdle ==
    /\ adds_in_flight = [t \in {"t1", "t2"} |-> 0]

BusIdle ==
    /\ listener = "none"
    /\ pubsub_buffer = <<>>
    /\ publish_log = <<>>
    /\ listener_got = {}

SubIdle ==
    /\ followers_table = <<>>
    /\ configs_table = <<>>
    /\ sub_call = [op |-> "idle"]

StallIdle ==
    /\ call_phase = "idle"
    /\ never_returns = {}
    /\ waited = 0
    /\ last_polled = 0

IdIdle ==
    /\ id_inputs = <<>>
    /\ id_events = <<>>

TaskIdle ==
    /\ listener_queue = <<>>
    /\ event_tasks = [e \in {} |-> 0]
    /\ copied_counts = [f \in {} |-> 0]
    /\ venue_orders = <<>>

FpIdle ==
    /\ seen_state = [k \in {} |-> ""]

CalcIdle ==
    /\ raw_trades = <<>>
    /\ calc_positions = [s \in {} |-> <<>>]
    /\ calc_results = <<>>

LoopIdle ==
    /\ start_calls = 0
    /\ starts_waiting = 0
    /\ loop_tasks = <<>>
    /\ task_ref = 0
    /\ loaded = FALSE
    /\ venue_polls = 0
    /\ stop_returned = FALSE

CheckIdle ==
    /\ check_pc = "idle"
    /\ check_session = 0
    /\ events_for = [s \in 1..MaxConnectors |-> 0]
    /\ calls_for = [s \in 1..MaxConnectors |-> 0]

MonInit ==
    /\ MonIdle
    /\ EngIdle
    /\ OrchIdle
    /\ SvcIdle
    /\ CheckIdle
    /\ LoopIdle
    /\ CalcIdle
    /\ FpIdle
    /\ TaskIdle
    /\ IdIdle
    /\ StallIdle
    /\ SubIdle
    /\ BusIdle
    /\ RaceIdle
    /\ SessIdle
    /\ PnlIdle

\* _check_activity, first half: _check_orders on the session at the head of
\* the loop. A failing fetch_orders is caught and logged inside _check_orders.
CheckOrders(batches) ==
    /\ loop_ids # <<>>
    /\ phase = "orders"
    /\ \E raised \in BOOLEAN, orders \in batches :
         LET session_obj == MonitoringSession(Head(loop_ids))
             st == IF raised THEN [cache |-> cache, published |-> <<>>]
                   ELSE check_orders_loop(session_obj, orders, 1,
                          [cache |-> cache, published |-> <<>>], now)
         IN  /\ raised => orders = <<>>
             /\ cache' = st.cache
             /\ published' = st.published
             /\ last_emit' = RecordEmits(last_emit, st.published, now)
             /\ ord_obs' = orders
    /\ phase' = "positions"
    /\ pos_obs' = <<>>
    /\ UNCHANGED <<now, loop_ids, ticks>>
    /\ UNCHANGED engVars
    /\ UNCHANGED orchVars
    /\ UNCHANGED pnlVars
    /\ UNCHANGED svcVars
    /\ UNCHANGED sessVars
    /\ UNCHANGED checkVars
    /\ UNCHANGED loopVars
    /\ UNCHANGED calcVars
    /\ UNCHANGED fpVars
    /\ UNCHANGED taskVars
    /\ UNCHANGED idVars
    /\ UNCHANGED stallVars
    /\ UNCHANGED subVars
    /\ UNCHANGED busVars
    /\ UNCHANGED raceVars

\* _check_activity, second half: _check_positions on the same session, then
\* the loop moves to the next session id.
CheckPositions(batches) ==
    /\ loop_ids # <<>>
    /\ phase = "positions"
    /\ \E raised \in BOOLEAN, positions \in batches :
         LET session_obj == MonitoringSession(Head(loop_ids))
             st0 == [cache |-> cache, published |-> <<>>, obs |-> <<>>]
             st == IF raised THEN st0
                   ELSE check_positions_loop(session_obj, positions, 1, st0, now)
         IN  /\ raised => positions = <<>>
             /\ cache' = st.cache
             /\ published' = st.published
             /\ pos_obs' = st.obs
             /\ seen_state' = RecordStates(seen_state, st.obs)
    /\ phase' = "orders"
    /\ loop_ids' = Tail(loop_ids)
    /\ ord_obs' = <<>>
    /\ UNCHANGED <<now, ticks, last_emit>>
    /\ UNCHANGED engVars
    /\ UNCHANGED orchVars
    /\ UNCHANGED pnlVars
    /\ UNCHANGED svcVars
    /\ UNCHANGED sessVars
    /\ UNCHANGED checkVars
    /\ UNCHANGED loopVars
    /\ UNCHANGED calcVars
    /\ UNCHANGED taskVars
    /\ UNCHANGED idVars
    /\ UNCHANGED stallVars
    /\ UNCHANGED subVars
    /\ UNCHANGED busVars
    /\ UNCHANGED raceVars

\* End of one iteration of _monitoring_loop: asyncio.sleep(_poll_interval),
\* then the session ids are listed again.
Sleep(delays) ==
    /\ loop_ids = <<>>
    /\ ticks < MaxTicks
    /\ \E d \in delays :
         /\ now' = now + _poll_interval + d
         /\ cache' = expire_keys(cache, now + _poll_interval + d)
    /\ loop_ids' = SessionIds
    /\ ticks' = ticks + 1
    /\ published' = <<>>
    /\ pos_obs' = <<>>
    /\ UNCHANGED <<phase, ord_obs, last_emit>>
    /\ UNCHANGED engVars
    /\ UNCHANGED orchVars
    /\ UNCHANGED pnlVars
    /\ UNCHANGED svcVars
    /\ UNCHANGED sessVars
    /\ UNCHANGED checkVars
    /\ UNCHANGED loopVars
    /\ UNCHANGED calcVars
    /\ UNCHANGED fpVars
    /\ UNCHANGED taskVars
    /\ UNCHANGED idVars
    /\ UNCHANGED stallVars
    /\ UNCHANGED subVars
    /\ UNCHANGED busVars
    /\ UNCHANGED raceVars

\* The monitor with the venues' order histories varied.
MonNext ==
    \/ CheckOrders(OrderBatches)
    \/ CheckPositions(NoPositionBatches)
    \/ Sleep(OrderDelays)

SpecMonitor == MonInit /\ [][MonNext]_vars

\* The monitor with the venues' positions varied.
PosNext ==
    \/ CheckOrders(NoOrderBatches)
    \/ CheckPositions(PositionBatches)
    \/ Sleep(PositionDelays)

SpecPositions == MonInit /\ [][PosNext]_vars

\* C29: a position observed with the fingerprint it had at its latest
\* observation causes no event, however long ago that observation was.
C29_FingerprintNeverExpires ==
    [][\A i \in DOMAIN pos_obs' :
          LET o == pos_obs'[i]
          IN  (/\ phase = "positions"
               /\ Cardinality({j \in DOMAIN pos_obs' : pos_obs'[j].key = o.key}) = 1
               /\ o.key \in DOMAIN seen_state
               /\ seen_state[o.key] = pos_state(o.position))
                 => o.emitted = None]_vars

(***************************************************************************)
(* Exact arithmetic on quantities and prices (Python float / Decimal),     *)
(* as fractions <<numerator, denominator>> in lowest terms.                *)
(***************************************************************************)
RECURSIVE RGcd(_, _)
RGcd(a, b) == IF b = 0 THEN a ELSE RGcd(b, a % b)

RAbs(n) == IF n < 0 THEN -n ELSE n

RNorm(n, d) ==
    LET g == RGcd(RAbs(n), RAbs(d))
        sgn == IF d < 0 THEN -1 ELSE 1
    IN  <<(sgn * n) \div g, (sgn * d) \div g>>

R(n) == <<n, 1>>
RMul(a, b) == RNorm(a[1] * b[1], a[2] * b[2])
RDiv(a, b) == RNorm(a[1] * b[2], a[2] * b[1])
RAdd(a, b) == RNorm(a[1] * b[2] + b[1] * a[2], a[2] * b[2])
RSub(a, b) == RNorm(a[1] * b[2] - b[1] * a[2], a[2] * b[2])
RLt(a, b) == a[1] * b[2] < b[1] * a[2]
RLe(a, b) == a[1] * b[2] <= b[1] * a[2]

(***************************************************************************)
(* CopyTradingEngine                                                       *)
(***************************************************************************)
\* 'price': None in an event dict (TradeEvent.price is Optional).
NoPrice == -1

\* api_key_stores rows with is_active and can_trade: (user_id, exchange).
APIKeyStore == { <<"u1", "binance">>, <<"u2", "binance">>, <<"u2", "kraken">>,
                 <<"u3", "binance">> }

\* A copy_trading_configs row; a nullable amount that is None is written 0
\* (the code tests these fields for truth, and None and 0 are both false).
CopyTradingConfig(mode, fixed, percent, min, max) ==
    [copy_mode |-> mode, fixed_amount_usd |-> fixed, proportion_percent |-> percent,
     min_trade_size_usd |-> min, max_trade_size_usd |-> max,
     is_active |-> TRUE, is_paused |-> FALSE, total_copied_trades |-> 0]

ConfigUniverse ==
    { CopyTradingConfig(mode, fixed, percent, min, max) :
        mode \in {"fixed_amount", "proportional", "smart_scale"},
        fixed \in {0, 100}, percent \in {0, 50},
        min \in {0, 10, 150}, max \in {0, 120} }

\* The configs the engine runs with when delivery is the matter under study.
DefaultConfigs ==
    [f \in {"f1", "f2", "f3"} |->
        IF f = "f2" THEN CopyTradingConfig("fixed_amount", 100, 0, 10, 0)
        ELSE CopyTradingConfig("proportional", 0, 50, 10, 120)]

\* The dict a TradeEvent is published as (TradeEvent.to_dict).
EventData(id, type, exchange, quantity, price) ==
    [event_id |-> id, event_type |-> type, trader_id |-> "t1",
     exchange |-> exchange, symbol |-> "BTC/USDT", side |-> "buy",
     quantity |-> quantity, price |-> price]

EventUniverse(id) ==
    { EventData(id, type, exchange, quantity, price) :
        type \in {"order_filled", "order_canceled", "position_opened"},
        exchange \in {"binance", "kraken"},
        quantity \in {1, 3}, price \in {NoPrice, 0, 50, 200} }

FewEvents(id) ==
    { EventData(id, "order_filled", "binance", 3, 50),
      EventData(id, "order_canceled", "binance", 3, 50),
      EventData(id, "position_opened", "kraken", 1, 200) }

\* _calculate_copy_amount before the limits are applied (engine.py:230-248).
copy_amount_by_mode(config, trader_amount, trader_price) ==
    IF config.copy_mode = "fixed_amount"
    THEN IF RLt(R(0), trader_price)
         THEN RDiv(R(config.fixed_amount_usd), trader_price)
         ELSE R(0)
    ELSE IF config.copy_mode = "proportional"
    THEN RMul(trader_amount,
              RDiv(R(IF config.proportion_percent # 0
                     THEN config.proportion_percent ELSE 100), R(100)))
    ELSE IF config.copy_mode = "smart_scale"
    THEN trader_amount
    ELSE R(0)

\* _calculate_copy_amount with the max limit left out.
_calculate_copy_amount_no_cap(config, event_data) ==
    IF event_data.price = NoPrice THEN R(0)
    ELSE
      LET trader_amount == R(event_data.quantity)
          trader_price == R(event_data.price)
          amount == copy_amount_by_mode(config, trader_amount, trader_price)
      IN  IF /\ config.min_trade_size_usd # 0
             /\ RLt(RMul(amount, trader_price), R(config.min_trade_size_usd))
          THEN R(0)
          ELSE amount

\* CopyTradingEngine._calculate_copy_amount; float(None) raises and the
\* handler returns 0.0.
_calculate_copy_amount(config, event_data) ==
    IF event_data.price = NoPrice THEN R(0)
    ELSE
      LET trader_amount == R(event_data.quantity)
          trader_price == R(event_data.price)
          amount == copy_amount_by_mode(config, trader_amount, trader_price)
      IN  IF /\ config.min_trade_size_usd # 0
             /\ RLt(RMul(amount, trader_price), R(config.min_trade_size_usd))
          THEN R(0)
          ELSE IF /\ config.max_trade_size_usd # 0
                  /\ RLt(R(config.max_trade_size_usd), RMul(amount, trader_price))
          THEN RDiv(R(config.max_trade_size_usd), trader_price)
          ELSE amount

\* What the follower's side does when the engine reaches it.
Outcomes == {"ok", "no_secrets", "raise", "commit_raises"}

\* CopyTradingEngine._execute_copy_trade for one follower; st = [configs,
\* replica_orders, aborted]; outcome: the secrets are retrieved, the venue
\* takes the order and the Trade row is committed ("ok"),
\* get_credentials_for_trading returns None ("no_secrets"), create_connector
\* or create_order raises ("raise"), or the venue takes the order and
\* session.commit() raises ("commit_raises"). A failed commit rolls the
\* Trade row and the count back and leaves the shared session's transaction
\* failed (aborted): the handler at the end of the try block logs and
\* returns, nothing calls session.rollback().
_execute_copy_trade(st, follower, config, event_data, outcome) ==
    LET amount == _calculate_copy_amount(config, event_data)
        exchange == event_data.exchange
        placed == Append(st.replica_orders,
                  [follower_id |-> follower.follower_id,
                   follower_rel_id |-> follower.id,
                   exchange |-> exchange,
                   symbol |-> event_data.symbol,
                   side |-> event_data.side,
                   order_type |-> "market",
                   amount |-> amount,
                   source_event |-> event_data.event_id])
    IN  IF RLe(amount, R(0)) THEN st
        ELSE IF <<follower.follower_id, exchange>> \notin APIKeyStore THEN st
        ELSE IF outcome \in {"no_secrets", "raise"} THEN st
        ELSE IF outcome = "commit_raises"
        THEN [st EXCEPT !.replica_orders = placed, !.aborted = TRUE]
        ELSE [st EXCEPT !.configs[follower.id].total_copied_trades = @ + 1,
                        !.replica_orders = placed]

\* The loop over the followers with the paused flag of the config ignored.
RECURSIVE process_followers_ignoring_pause(_, _, _, _, _)
process_followers_ignoring_pause(st, followers, i, event_data, outcome) ==
    IF i > Len(followers) THEN st
    ELSE
      LET follower == followers[i]
          config == st.configs[follower.id]
      IN  IF st.aborted \/ ~config.is_active
          THEN process_followers_ignoring_pause(st, followers, i + 1, event_data, outcome)
          ELSE process_followers_ignoring_pause(
                 _execute_copy_trade(st, follower, config, event_data,
                                     outcome[follower.follower_id]),
                 followers, i + 1, event_data, outcome)

\* The loop of _process_trade_event over the followers, from the i-th on.
RECURSIVE process_followers(_, _, _, _, _)
process_followers(st, followers, i, event_data, outcome) ==
    IF i > Len(followers) THEN st
    ELSE
      LET follower == followers[i]
          config == st.configs[follower.id]
      IN  IF st.aborted \/ ~(config.is_active /\ ~config.is_paused)
          THEN process_followers(st, followers, i + 1, event_data, outcome)
          ELSE process_followers(
                 _execute_copy_trade(st, follower, config, event_data,
                                     outcome[follower.follower_id]),
                 followers, i + 1, event_data, outcome)

\* CopyTradingEngine._process_trade_event
_process_trade_event(st, trader_id, event_data, outcome) ==
    IF event_data.event_type \notin {"order_filled", "position_opened",
                                     "position_updated"}
    THEN st
    ELSE process_followers(st,
           SelectSeq(st.followers,
                     LAMBDA f : f.trader_id = trader_id /\ f.is_copying /\ f.is_active),
           1, event_data, outcome)

EngInit ==
    /\ MonIdle
    /\ bus = {}
    /\ delivered = [e \in {} |-> 0]
    /\ configs = DefaultConfigs
    /\ replica_orders = <<>>
    /\ follower_rows = FollowerRows
    /\ eng_obs = NoDelivery
    /\ OrchIdle
    /\ SvcIdle
    /\ CheckIdle
    /\ LoopIdle
    /\ CalcIdle
    /\ FpIdle
    /\ TaskIdle
    /\ IdIdle
    /\ StallIdle
    /\ SubIdle
    /\ BusIdle
    /\ RaceIdle
    /\ SessIdle
    /\ PnlIdle

\* The monitor publishes an event; its event_id is new.
Publish ==
    /\ Cardinality(bus) < MaxEvents
    /\ \E n \in 1..MaxEvents :
         LET id == "evt_" \o ToString(n)
         IN  /\ \A e \in bus : e.event_id # id
             /\ \A m \in 1..(n - 1) : \E e \in bus : e.event_id = "evt_" \o ToString(m)
             /\ \E e \in FewEvents(id) :
                  /\ bus' = bus \cup {e}
                  /\ delivered' = [x \in DOMAIN delivered \cup {id} |->
                                      IF x = id THEN 0 ELSE delivered[x]]
    /\ UNCHANGED <<configs, replica_orders, follower_rows, eng_obs>>
    /\ UNCHANGED monVars
    /\ UNCHANGED orchVars
    /\ UNCHANGED pnlVars
    /\ UNCHANGED svcVars
    /\ UNCHANGED sessVars
    /\ UNCHANGED checkVars
    /\ UNCHANGED loopVars
    /\ UNCHANGED calcVars
    /\ UNCHANGED fpVars
    /\ UNCHANGED taskVars
    /\ UNCHANGED idVars
    /\ UNCHANGED stallVars
    /\ UNCHANGED subVars
    /\ UNCHANGED busVars
    /\ UNCHANGED raceVars

\* _event_listener: pubsub.get_message returns a published event (a bus with
\* at-least-once delivery may return it again) and _process_trade_event runs
\* on it.
Deliver(outcomes, max_deliveries) ==
    /\ \E e \in bus, outcome \in [{"u1", "u2", "u3"} -> outcomes] :
         /\ delivered[e.event_id] < max_deliveries
         /\ outcome["u3"] = "ok"
         /\ LET st == _process_trade_event([configs |-> configs,
                                            replica_orders |-> replica_orders,
                                            followers |-> follower_rows,
                                            aborted |-> FALSE],
                                           e.trader_id, e, outcome)
            IN  /\ configs' = st.configs
                /\ replica_orders' = st.replica_orders
         /\ eng_obs' = [event_id |-> e.event_id, outcome |-> outcome,
                        orders_before |-> Len(replica_orders),
                        configs_before |-> configs, followers |-> follower_rows]
         /\ delivered' = [delivered EXCEPT ![e.event_id] = @ + 1]
    /\ UNCHANGED <<bus, follower_rows>>
    /\ UNCHANGED monVars
    /\ UNCHANGED orchVars
    /\ UNCHANGED pnlVars
    /\ UNCHANGED svcVars
    /\ UNCHANGED sessVars
    /\ UNCHANGED checkVars
    /\ UNCHANGED loopVars
    /\ UNCHANGED calcVars
    /\ UNCHANGED fpVars
    /\ UNCHANGED taskVars
    /\ UNCHANGED idVars
    /\ UNCHANGED stallVars
    /\ UNCHANGED subVars
    /\ UNCHANGED busVars
    /\ UNCHANGED raceVars

(***************************************************************************)
(* Claims about the monitor                                                *)
(***************************************************************************)
PassesFilter(session_obj, symbol) ==
    session_obj.symbols = {} \/ symbol \in session_obj.symbols

\* C1: within the retention window (ProcessedEventTTL seconds from an
\* emission) a (venue, order_id, status) is published once: a _check_orders
\* call publishes an event for a triple only if none was published for it in
\* the last ProcessedEventTTL seconds (nor earlier in the same call), and
\* after the call every observed triple that passes the symbol filter has
\* one emission inside its window.
C1_DedupOnce ==
    [][ (phase = "orders" /\ phase' = "positions") =>
          LET session_obj == MonitoringSession(Head(loop_ids))
          IN  /\ \A i \in 1..Len(published') :
                   LET k == EventKey(published'[i].data)
                   IN  /\ k \in DOMAIN last_emit =>
                              now - last_emit[k] >= ProcessedEventTTL
                       /\ \A j \in 1..(i - 1) : EventKey(published'[j].data) # k
              /\ \A i \in 1..Len(ord_obs') :
                   LET o == ord_obs'[i]
                       k == <<session_obj.exchange, o.id, o.status>>
                   IN  PassesFilter(session_obj, o.symbol) =>
                         /\ k \in DOMAIN last_emit'
                         /\ now - last_emit'[k] < ProcessedEventTTL
      ]_vars

\* C1 witness: an order is observed again inside the window of an earlier
\* emission for its triple, and nothing is published for it.
C1_Witness ==
    /\ phase = "positions"
    /\ \E i \in 1..Len(ord_obs) :
         LET k == <<MonitoringSession(Head(loop_ids)).exchange,
                    ord_obs[i].id, ord_obs[i].status>>
         IN  /\ k \in DOMAIN last_emit
             /\ last_emit[k] < now
             /\ now - last_emit[k] < ProcessedEventTTL
             /\ \A j \in 1..Len(published) : EventKey(published[j].data) # k

EmittedTypes(obs) ==
    SelectSeq([i \in 1..Len(obs) |-> obs[i].emitted], LAMBDA e : e # None)

\* C3: a position observation with no cached fingerprint publishes
\* position_opened; one whose fingerprint differs from the cached one
\* publishes position_closed if its size is 0 and position_updated otherwise;
\* one whose fingerprint equals the cached one publishes nothing.
C3_FingerprintTransitions ==
    /\ \A i \in 1..Len(pos_obs) :
         LET ob == pos_obs[i]
             fingerprint == ob.position.symbol \o "_"
                            \o ToString(ob.position.contracts) \o "_"
                            \o ToString(ob.position.entryPrice)
         IN  ob.emitted =
               IF ob.last_state = None THEN "position_opened"
               ELSE IF ob.last_state = fingerprint THEN None
               ELSE IF ob.position.contracts = 0 THEN "position_closed"
               ELSE "position_updated"
    /\ pos_obs # <<>> =>
         [i \in 1..Len(published) |-> published[i].data.event_type]
             = EmittedTypes(pos_obs)

\* C3 witness: one call sees a changed fingerprint of size 0 (closed) and then
\* the same fingerprint again (nothing).
C3_Witness ==
    \E i, j \in 1..Len(pos_obs) :
        /\ i < j
        /\ pos_obs[i].emitted = "position_closed"
        /\ pos_obs[j].emitted = None

EngNext == Publish \/ Deliver({"ok", "raise"}, MaxDeliveries)

\* The engine fed by a bus that may deliver an event more than once.
SpecEngine == EngInit /\ [][EngNext]_vars

\* One published event and one follower configuration, both arbitrary.
SizingInit ==
    /\ MonIdle
    /\ bus \in {{e} : e \in EventUniverse("evt_1")}
    /\ delivered = [e \in {"evt_1"} |-> 0]
    /\ configs \in {[DefaultConfigs EXCEPT
                        !["f1"] = c,
                        !["f2"] = CopyTradingConfig("proportional", 0, 50, 150, 0)] :
                     c \in ConfigUniverse}
    /\ replica_orders = <<>>
    /\ follower_rows = FollowerRows
    /\ eng_obs = NoDelivery
    /\ OrchIdle
    /\ SvcIdle
    /\ CheckIdle
    /\ LoopIdle
    /\ CalcIdle
    /\ FpIdle
    /\ TaskIdle
    /\ IdIdle
    /\ StallIdle
    /\ SubIdle
    /\ BusIdle
    /\ RaceIdle
    /\ SessIdle
    /\ PnlIdle

\* Here the venue takes every order or refuses it; the sizes are what varies.
SizingNext == Deliver({"ok", "raise"}, MaxDeliveries)

SpecSizing == SizingInit /\ [][SizingNext]_vars

\* SubscriptionRepository.pause
pause ==
    /\ \E f \in {"f1", "f2"} : configs' = [configs EXCEPT ![f].is_paused = TRUE]
    /\ UNCHANGED <<bus, delivered, replica_orders, follower_rows, eng_obs>>
    /\ UNCHANGED monVars
    /\ UNCHANGED orchVars
    /\ UNCHANGED pnlVars
    /\ UNCHANGED svcVars
    /\ UNCHANGED sessVars
    /\ UNCHANGED checkVars
    /\ UNCHANGED loopVars
    /\ UNCHANGED calcVars
    /\ UNCHANGED fpVars
    /\ UNCHANGED taskVars
    /\ UNCHANGED idVars
    /\ UNCHANGED stallVars
    /\ UNCHANGED subVars
    /\ UNCHANGED busVars
    /\ UNCHANGED raceVars

\* SubscriptionRepository.resume
resume ==
    /\ \E f \in {"f1", "f2"} : configs' = [configs EXCEPT ![f].is_paused = FALSE]
    /\ UNCHANGED <<bus, delivered, replica_orders, follower_rows, eng_obs>>
    /\ UNCHANGED monVars
    /\ UNCHANGED orchVars
    /\ UNCHANGED pnlVars
    /\ UNCHANGED svcVars
    /\ UNCHANGED sessVars
    /\ UNCHANGED checkVars
    /\ UNCHANGED loopVars
    /\ UNCHANGED calcVars
    /\ UNCHANGED fpVars
    /\ UNCHANGED taskVars
    /\ UNCHANGED idVars
    /\ UNCHANGED stallVars
    /\ UNCHANGED subVars
    /\ UNCHANGED busVars
    /\ UNCHANGED raceVars

\* SubscriptionRepository.cancel: the config goes inactive and the follower
\* relationship stops copying.
cancel ==
    /\ \E f \in {"f1", "f2"} :
         /\ configs' = [configs EXCEPT ![f].is_active = FALSE]
         /\ follower_rows' = [i \in DOMAIN follower_rows |->
                                IF follower_rows[i].id = f
                                THEN [follower_rows[i] EXCEPT !.is_copying = FALSE]
                                ELSE follower_rows[i]]
    /\ UNCHANGED <<bus, delivered, replica_orders, eng_obs>>
    /\ UNCHANGED monVars
    /\ UNCHANGED orchVars
    /\ UNCHANGED pnlVars
    /\ UNCHANGED svcVars
    /\ UNCHANGED sessVars
    /\ UNCHANGED checkVars
    /\ UNCHANGED loopVars
    /\ UNCHANGED calcVars
    /\ UNCHANGED fpVars
    /\ UNCHANGED taskVars
    /\ UNCHANGED idVars
    /\ UNCHANGED stallVars
    /\ UNCHANGED subVars
    /\ UNCHANGED busVars
    /\ UNCHANGED raceVars

\* One published event of either trader, the default configs, and a third
\* relationship whose flags are arbitrary.
FanoutInit ==
    /\ MonIdle
    /\ bus \in {{[e EXCEPT !.trader_id = t]} : e \in FewEvents("evt_1"), t \in {"t1", "t2"}}
    /\ delivered = [e \in {"evt_1"} |-> 0]
    /\ configs = DefaultConfigs
    /\ replica_orders = <<>>
    /\ follower_rows \in {[FollowerRows EXCEPT ![3].is_active = a, ![3].is_copying = c] :
                            a \in BOOLEAN, c \in BOOLEAN}
    /\ eng_obs = NoDelivery
    /\ OrchIdle
    /\ SvcIdle
    /\ CheckIdle
    /\ LoopIdle
    /\ CalcIdle
    /\ FpIdle
    /\ TaskIdle
    /\ IdIdle
    /\ StallIdle
    /\ SubIdle
    /\ BusIdle
    /\ RaceIdle
    /\ SessIdle
    /\ PnlIdle

FanoutNext == Deliver(Outcomes, MaxFanouts) \/ pause \/ resume \/ cancel

\* The engine processing one event for several followers whose
\* subscriptions are paused, resumed and cancelled meanwhile.
SpecFanout == FanoutInit /\ [][FanoutNext]_vars

(***************************************************************************)
(* Claims about the engine                                                 *)
(***************************************************************************)
OrdersFor(follower_rel_id, event_id) ==
    {i \in 1..Len(replica_orders) :
        /\ replica_orders[i].follower_rel_id = follower_rel_id
        /\ replica_orders[i].source_event = event_id}

\* C2: for every published event and every follower the engine places at
\* most one replica order, however often the bus delivers the event.
C2_AtMostOneReplica ==
    \A e \in bus : \A i \in 1..Len(FollowerRows) :
        Cardinality(OrdersFor(FollowerRows[i].id, e.event_id)) <= 1

SourceEvent(order) == CHOOSE e \in bus : e.event_id = order.source_event

\* The notional the sizing mode computes for a follower, before the limits.
ComputedNotional(config, event_data) ==
    RMul(copy_amount_by_mode(config, R(event_data.quantity), R(event_data.price)),
         R(event_data.price))

\* C5: no replica order is placed when the computed notional (computed
\* quantity x event price) is below min_trade_size_usd; when it is above
\* max_trade_size_usd the quantity placed has a notional equal to the max,
\* and no placed quantity has a notional above the max.
C5_SizingClamps ==
    \A i \in 1..Len(replica_orders) :
        LET o == replica_orders[i]
            e == SourceEvent(o)
            c == configs[o.follower_rel_id]
            placed == RMul(o.amount, R(e.price))
        IN  /\ e.price # NoPrice
            /\ c.min_trade_size_usd # 0 =>
                  ~RLt(ComputedNotional(c, e), R(c.min_trade_size_usd))
            /\ c.max_trade_size_usd # 0 =>
                  /\ RLe(placed, R(c.max_trade_size_usd))
                  /\ RLt(R(c.max_trade_size_usd), ComputedNotional(c, e)) =>
                        placed = R(c.max_trade_size_usd)

\* C5 witness: one delivered event whose computed notional is above f1's max
\* and below f2's min: f1's order is capped to the max, f2 gets none.
C5_Witness ==
    \E e \in bus :
        /\ delivered[e.event_id] >= 1
        /\ e.price # NoPrice
        /\ RLt(ComputedNotional(configs["f2"], e), R(configs["f2"].min_trade_size_usd))
        /\ OrdersFor("f2", e.event_id) = {}
        /\ configs["f1"].max_trade_size_usd # 0
        /\ RLt(R(configs["f1"].max_trade_size_usd), ComputedNotional(configs["f1"], e))
        /\ \E i \in OrdersFor("f1", e.event_id) :
              RMul(replica_orders[i].amount, R(e.price))
                  = R(configs["f1"].max_trade_size_usd)

(***************************************************************************)
(* TradingOrchestrator                                                     *)
(***************************************************************************)
\* Venue names initialize_all_exchanges registers connectors under.
Venues == {"binance", "coinbase", "uniswap"}

\* key in a dict / item in a list.
InSeq(seq, x) == \E i \in DOMAIN seq : seq[i] = x

\* The status of an OrderResult a connector returns ("failed": the order went
\* out and the venue reports it failed, as for a reverted swap).
ReturnedStatuses == {"filled", "failed"}

\* What connector.place_order does on a call: returns an OrderResult with one
\* of these statuses, or raises RuntimeError with one of these messages.
PlaceReplies == ReturnedStatuses \cup {"order failed", "client not initialized"}

OrderResult(exchange, status) == [exchange |-> exchange, status |-> status]

\* One adapter call made by an orchestrator operation, or the asyncio.sleep
\* between the source and the targets of replicate_trade.
AdapterCall(venue, raised) == [method |-> "place_order", venue |-> venue, raised |-> raised]
SleepCall == [method |-> "sleep", venue |-> "", raised |-> FALSE]

\* What connector.get_market_data does on a call: raises, or returns quotes.
MarketData(raises, bid, ask) == [raises |-> raises, bid |-> bid, ask |-> ask, last |-> bid]

TickerReplies == { MarketData(TRUE, 0, 0), MarketData(FALSE, 99, 101),
                   MarketData(FALSE, 100, 102) }

Balance(asset, free, locked) ==
    [asset |-> asset, free |-> free, locked |-> locked, total |-> free + locked]

\* What connector.get_balance(asset) does on a call: raises, or returns a
\* list of Balance rows.
BalanceReplies ==
    { [raises |-> TRUE,  balances |-> <<>>],
      [raises |-> FALSE, balances |-> <<Balance("BTC", 2, 1)>>],
      [raises |-> FALSE, balances |-> <<Balance("USDT", 5, 0), Balance("BTC", 1, 0)>>] }

\* Sequences of distinct venue names, up to two of them.
VenueLists ==
    {<<>>} \cup {<<a>> : a \in Venues}
           \cup {l \in {<<a, b>> : a \in Venues, b \in Venues} : l[1] # l[2]}

\* place_order: the name must be a key of self.exchanges; the connector's
\* exception, if any, propagates.
place_order(exs, exchange_name, replies) ==
    IF ~InSeq(exs, exchange_name)
    THEN [raised |-> TRUE,
          error |-> "Exchange " \o exchange_name \o " not configured",
          value |-> OrderResult(exchange_name, "none"),
          calls |-> <<>>]
    ELSE IF replies[exchange_name] \in ReturnedStatuses
    THEN [raised |-> FALSE, error |-> "",
          value |-> OrderResult(exchange_name, replies[exchange_name]),
          calls |-> <<AdapterCall(exchange_name, FALSE)>>]
    ELSE [raised |-> TRUE, error |-> replies[exchange_name],
          value |-> OrderResult(exchange_name, "none"),
          calls |-> <<AdapterCall(exchange_name, TRUE)>>]

\* place_order_with_fallback, the loop over preferred_exchanges from index i
\* with the errors collected and the adapter calls made so far.
RECURSIVE fallback_loop(_, _, _, _, _, _)
fallback_loop(exs, preferred_exchanges, replies, i, errors, calls) ==
    IF i > Len(preferred_exchanges)
    THEN [raised |-> TRUE, error |-> "All exchanges failed. Errors: ",
          errors |-> errors, value |-> OrderResult("", "none"), calls |-> calls]
    ELSE LET exchange_name == preferred_exchanges[i]
         IN  IF ~InSeq(exs, exchange_name)
             THEN fallback_loop(exs, preferred_exchanges, replies, i + 1,
                                Append(errors, exchange_name \o ": not configured"),
                                calls)
             ELSE LET result == place_order(exs, exchange_name, replies)
                  IN  IF ~result.raised
                      THEN [raised |-> FALSE, error |-> "", errors |-> <<>>,
                            value |-> result.value, calls |-> calls \o result.calls]
                      ELSE fallback_loop(exs, preferred_exchanges, replies, i + 1,
                                         Append(errors, exchange_name \o ": " \o result.error),
                                         calls \o result.calls)

\* A fallback that reports only the failure of the last venue tried.
place_order_with_fallback_last_error(exs, preferred_exchanges, replies) ==
    LET r == fallback_loop(exs, preferred_exchanges, replies, 1, <<>>, <<>>)
    IN  IF r.raised /\ Len(r.errors) > 1
        THEN [r EXCEPT !.errors = <<r.errors[Len(r.errors)]>>]
        ELSE r

\* A fallback that places on every registered venue listed and returns the
\* first result.
place_order_with_fallback_try_all(exs, preferred_exchanges, replies) ==
    LET r == fallback_loop(exs, preferred_exchanges, replies, 1, <<>>, <<>>)
        listed == SelectSeq(preferred_exchanges, LAMBDA name : InSeq(exs, name))
    IN  [r EXCEPT !.calls = [k \in 1..Len(listed) |->
                               AdapterCall(listed[k],
                                           replies[listed[k]] \notin ReturnedStatuses)]]

place_order_with_fallback(exs, preferred_exchanges, replies) ==
    fallback_loop(exs, preferred_exchanges, replies, 1, <<>>, <<>>)

\* _get_price_safe: the connector's quote, or None when it raised.
_get_price_safe(reply) ==
    IF reply.raises THEN [none |-> TRUE, bid |-> 0, ask |-> 0, last |-> 0]
    ELSE [none |-> FALSE, bid |-> reply.bid, ask |-> reply.ask, last |-> reply.last]

\* get_best_price, the list of tasks: one per key of self.exchanges that is
\* in initialized_exchanges, in dict order.
price_tasks(exs, inits) == SelectSeq(exs, LAMBDA name : InSeq(inits, name))

\* get_best_price, the loop "for i, (name, _) in enumerate(self.exchanges.items())"
\* reading results[i]; prices is the dict built so far, in insertion order.
RECURSIVE prices_loop(_, _, _, _)
prices_loop(exs, results, i, prices) ==
    IF i > Len(exs) THEN [raised |-> FALSE, error |-> "", prices |-> prices]
    ELSE IF i > Len(results)
    THEN [raised |-> TRUE, error |-> "IndexError: list index out of range",
          prices |-> prices]
    ELSE IF ~results[i].none
    THEN prices_loop(exs, results, i + 1,
                     Append(prices, [name |-> exs[i], bid |-> results[i].bid,
                                     ask |-> results[i].ask, last |-> results[i].last]))
    ELSE prices_loop(exs, results, i + 1, prices)

\* min(prices.items(), key=ask) / max(prices.items(), key=bid): the first
\* item with the extreme key.
best_item(prices, side) ==
    LET better(a, b) == IF side = "buy" THEN a.ask < b.ask ELSE a.bid > b.bid
        i == CHOOSE i \in DOMAIN prices :
                 /\ \A j \in DOMAIN prices : ~better(prices[j], prices[i])
                 /\ \A j \in 1..(i - 1) : better(prices[i], prices[j])
    IN  prices[i]

get_best_price(exs, inits, side, replies) ==
    LET tasks == price_tasks(exs, inits)
        results == [i \in DOMAIN tasks |-> _get_price_safe(replies[tasks[i]])]
        built == prices_loop(exs, results, 1, <<>>)
        none == [raised |-> TRUE, error |-> built.error, best_exchange |-> "",
                 best_price |-> 0, all_prices |-> <<>>]
    IN  IF built.raised THEN none
        ELSE IF built.prices = <<>>
        THEN [none EXCEPT !.error = "No prices available from any exchange"]
        ELSE LET best == best_item(built.prices, side)
             IN  [raised |-> FALSE, error |-> "",
                  best_exchange |-> best.name,
                  best_price |-> IF side = "buy" THEN best.ask ELSE best.bid,
                  all_prices |-> built.prices]

\* sum(b[field] for b in balances if b['asset'] == asset)
RECURSIVE sum_asset(_, _, _)
sum_asset(balances, asset, field) ==
    IF balances = <<>> THEN 0
    ELSE (IF Head(balances).asset = asset THEN Head(balances)[field] ELSE 0)
         + sum_asset(Tail(balances), asset, field)

\* sum(... for balances in all_balances.values())
RECURSIVE sum_all(_, _, _)
sum_all(all_balances, asset, field) ==
    IF all_balances = <<>> THEN 0
    ELSE sum_asset(Head(all_balances).balances, asset, field)
         + sum_all(Tail(all_balances), asset, field)

aggregate(all_balances, asset) ==
    LET total_free == sum_all(all_balances, asset, "free")
        total_locked == sum_all(all_balances, asset, "locked")
    IN  [raised |-> FALSE, asset |-> asset,
         total_free |-> total_free, total_locked |-> total_locked,
         total |-> total_free + total_locked,
         by_exchange |-> all_balances]

\* A balance loop that stops at the first venue whose get_balance raises.
RECURSIVE balances_loop_abort(_, _, _, _, _)
balances_loop_abort(exs, inits, replies, i, all_balances) ==
    IF i > Len(exs) THEN all_balances
    ELSE IF ~InSeq(inits, exs[i])
    THEN balances_loop_abort(exs, inits, replies, i + 1, all_balances)
    ELSE IF replies[exs[i]].raises
    THEN Append(all_balances, [name |-> exs[i], balances |-> <<>>])
    ELSE balances_loop_abort(exs, inits, replies, i + 1,
             Append(all_balances, [name |-> exs[i], balances |-> replies[exs[i]].balances]))

get_aggregated_balance_abort(exs, inits, asset, replies) ==
    aggregate(balances_loop_abort(exs, inits, replies, 1, <<>>), asset)

\* get_aggregated_balance, the loop over self.exchanges.items(); all_balances
\* is the dict built so far, in insertion order.
RECURSIVE balances_loop(_, _, _, _, _)
balances_loop(exs, inits, replies, i, all_balances) ==
    IF i > Len(exs) THEN all_balances
    ELSE IF ~InSeq(inits, exs[i])
    THEN balances_loop(exs, inits, replies, i + 1, all_balances)
    ELSE balances_loop(exs, inits, replies, i + 1,
             Append(all_balances,
                    [name |-> exs[i],
                     balances |-> IF replies[exs[i]].raises THEN <<>>
                                  ELSE replies[exs[i]].balances]))

get_aggregated_balance(exs, inits, asset, replies) ==
    aggregate(balances_loop(exs, inits, replies, 1, <<>>), asset)

\* replicate_trade, the results of asyncio.gather(*tasks, return_exceptions=True)
\* that are not exceptions, in task order.
RECURSIVE target_results(_, _, _, _)
target_results(exs, tasks, replies, i) ==
    IF i > Len(tasks) THEN <<>>
    ELSE LET result == place_order(exs, tasks[i], replies)
         IN  (IF result.raised THEN <<>> ELSE <<result.value>>)
             \o target_results(exs, tasks, replies, i + 1)

\* replicate_trade, the adapter calls the gathered tasks make, in task order.
RECURSIVE target_calls(_, _, _, _)
target_calls(exs, tasks, replies, i) ==
    IF i > Len(tasks) THEN <<>>
    ELSE place_order(exs, tasks[i], replies).calls
         \o target_calls(exs, tasks, replies, i + 1)

\* A replication that goes on to the targets whatever the source did.
replicate_trade_regardless(exs, source_exchange, target_exchanges, replies, delay_ms) ==
    LET source_result == place_order(exs, source_exchange, replies)
        tasks == SelectSeq(target_exchanges, LAMBDA target : InSeq(exs, target))
    IN  [raised |-> FALSE, error |-> "",
         results |-> (IF source_result.raised THEN <<>> ELSE <<source_result.value>>)
                     \o target_results(exs, tasks, replies, 1),
         calls |-> source_result.calls
                   \o (IF delay_ms > 0 THEN <<SleepCall>> ELSE <<>>)
                   \o target_calls(exs, tasks, replies, 1)]

replicate_trade(exs, source_exchange, target_exchanges, replies, delay_ms) ==
    LET source_result == place_order(exs, source_exchange, replies)
        tasks == SelectSeq(target_exchanges, LAMBDA target : InSeq(exs, target))
    IN  IF source_result.raised
        THEN [raised |-> TRUE, error |-> source_result.error, results |-> <<>>,
              calls |-> source_result.calls]
        ELSE [raised |-> FALSE, error |-> "",
              results |-> <<source_result.value>> \o target_results(exs, tasks, replies, 1),
              calls |-> source_result.calls
                        \o (IF delay_ms > 0 THEN <<SleepCall>> ELSE <<>>)
                        \o target_calls(exs, tasks, replies, 1)]

\* The registered names as a set.
Registered == {exchanges[i] : i \in DOMAIN exchanges}

OrchInit ==
    /\ MonIdle
    /\ EngIdle
    /\ OrchIdle
    /\ SvcIdle
    /\ CheckIdle
    /\ LoopIdle
    /\ CalcIdle
    /\ FpIdle
    /\ TaskIdle
    /\ IdIdle
    /\ StallIdle
    /\ SubIdle
    /\ BusIdle
    /\ RaceIdle
    /\ SessIdle
    /\ PnlIdle

\* add_exchange(name, connector): the connector is stored under the name
\* (a name already present keeps its place in the dict) and the name is
\* appended to initialized_exchanges when connector.initialize() succeeded.
AddExchange ==
    /\ adds < MaxAdds
    /\ \E name \in Venues, success \in BOOLEAN :
         /\ exchanges' = IF InSeq(exchanges, name) THEN exchanges
                         ELSE Append(exchanges, name)
         /\ initialized_exchanges' = IF success THEN Append(initialized_exchanges, name)
                                     ELSE initialized_exchanges
    /\ adds' = adds + 1
    /\ orch_call' = NoCall
    /\ orch_result' = NoCall
    /\ UNCHANGED <<monVars, engVars, pnlVars, svcVars, sessVars, raceVars, busVars, subVars, stallVars, idVars, taskVars, fpVars, calcVars, loopVars, checkVars>>

\* place_order(exchange_name, order), called directly.
PlaceOrder ==
    /\ orch_call.op = "idle"
    /\ \E exchange_name \in Venues, replies \in [Registered -> PlaceReplies] :
         /\ orch_call' = [op |-> "place_order", exchange_name |-> exchange_name,
                          replies |-> replies]
         /\ orch_result' = place_order(exchanges, exchange_name, replies)
    /\ UNCHANGED <<exchanges, initialized_exchanges, adds>>
    /\ UNCHANGED <<monVars, engVars, pnlVars, svcVars, sessVars, raceVars, busVars, subVars, stallVars, idVars, taskVars, fpVars, calcVars, loopVars, checkVars>>

PlaceOrderWithFallback ==
    /\ orch_call.op = "idle"
    /\ \E preferred_exchanges \in VenueLists, replies \in [Registered -> PlaceReplies] :
         /\ orch_call' = [op |-> "place_order_with_fallback",
                          preferred_exchanges |-> preferred_exchanges,
                          replies |-> replies]
         /\ orch_result' = place_order_with_fallback(exchanges, preferred_exchanges, replies)
    /\ UNCHANGED <<exchanges, initialized_exchanges, adds>>
    /\ UNCHANGED <<monVars, engVars, pnlVars, svcVars, sessVars, raceVars, busVars, subVars, stallVars, idVars, taskVars, fpVars, calcVars, loopVars, checkVars>>

GetBestPrice ==
    /\ orch_call.op = "idle"
    /\ \E side \in {"buy", "sell"}, replies \in [Registered -> TickerReplies] :
         /\ orch_call' = [op |-> "get_best_price", side |-> side, replies |-> replies]
         /\ orch_result' = get_best_price(exchanges, initialized_exchanges, side, replies)
    /\ UNCHANGED <<exchanges, initialized_exchanges, adds>>
    /\ UNCHANGED <<monVars, engVars, pnlVars, svcVars, sessVars, raceVars, busVars, subVars, stallVars, idVars, taskVars, fpVars, calcVars, loopVars, checkVars>>

GetAggregatedBalance ==
    /\ orch_call.op = "idle"
    /\ \E asset \in {"BTC", "USDT"}, replies \in [Registered -> BalanceReplies] :
         /\ orch_call' = [op |-> "get_aggregated_balance", asset |-> asset,
                          replies |-> replies]
         /\ orch_result' = get_aggregated_balance(exchanges, initialized_exchanges,
                                                  asset, replies)
    /\ UNCHANGED <<exchanges, initialized_exchanges, adds>>
    /\ UNCHANGED <<monVars, engVars, pnlVars, svcVars, sessVars, raceVars, busVars, subVars, stallVars, idVars, taskVars, fpVars, calcVars, loopVars, checkVars>>

ReplicateTrade ==
    /\ orch_call.op = "idle"
    /\ \E source_exchange \in Venues, target_exchanges \in VenueLists,
          replies \in [Registered -> PlaceReplies], delay_ms \in {0, 100} :
         /\ orch_call' = [op |-> "replicate_trade",
                          source_exchange |-> source_exchange,
                          target_exchanges |-> target_exchanges,
                          replies |-> replies,
                          delay_ms |-> delay_ms]
         /\ orch_result' = replicate_trade(exchanges, source_exchange,
                                           target_exchanges, replies, delay_ms)
    /\ UNCHANGED <<exchanges, initialized_exchanges, adds>>
    /\ UNCHANGED <<monVars, engVars, pnlVars, svcVars, sessVars, raceVars, busVars, subVars, stallVars, idVars, taskVars, fpVars, calcVars, loopVars, checkVars>>

\* The caller takes the result; the orchestrator is ready for the next call.
Return ==
    /\ orch_call.op # "idle"
    /\ orch_call' = NoCall
    /\ orch_result' = NoCall
    /\ UNCHANGED <<exchanges, initialized_exchanges, adds>>
    /\ UNCHANGED <<monVars, engVars, pnlVars, svcVars, sessVars, raceVars, busVars, subVars, stallVars, idVars, taskVars, fpVars, calcVars, loopVars, checkVars>>

OrchNext ==
    \/ AddExchange
    \/ PlaceOrder
    \/ PlaceOrderWithFallback
    \/ GetBestPrice
    \/ GetAggregatedBalance
    \/ ReplicateTrade
    \/ Return

SpecOrch == OrchInit /\ [][OrchNext]_vars

(***************************************************************************)
(* Claims about the orchestrator                                           *)
(***************************************************************************)
\* Why a listed venue failed: it is not a key of self.exchanges, or its
\* connector raised with this message.
FailureReason(name) ==
    IF name \notin Registered THEN "not configured" ELSE orch_call.replies[name]

AllListedFail ==
    \A i \in DOMAIN orch_call.preferred_exchanges :
        LET name == orch_call.preferred_exchanges[i]
        IN  name \notin Registered \/ orch_call.replies[name] \notin ReturnedStatuses

\* C6: when every venue listed in a place_order_with_fallback call fails
\* (its connector raises, or the name is not registered), the call raises one
\* error whose detail has one entry per listed venue, in order, each carrying
\* that venue's own failure reason.
C6_FallbackReportsAll ==
    (orch_call.op = "place_order_with_fallback" /\ AllListedFail)
        => /\ orch_result.raised
           /\ Len(orch_result.errors) = Len(orch_call.preferred_exchanges)
           /\ \A i \in DOMAIN orch_call.preferred_exchanges :
                 orch_result.errors[i] =
                     orch_call.preferred_exchanges[i] \o ": "
                         \o FailureReason(orch_call.preferred_exchanges[i])

\* Two listed venues fail for different reasons: the first is not registered,
\* the second is registered and its connector raises.
C6_Witness ==
    /\ orch_call.op = "place_order_with_fallback"
    /\ Len(orch_call.preferred_exchanges) = 2
    /\ orch_call.preferred_exchanges[1] \notin Registered
    /\ orch_call.preferred_exchanges[2] \in Registered
    /\ orch_call.replies[orch_call.preferred_exchanges[2]] = "order failed"
    /\ orch_result.raised
    /\ Len(orch_result.errors) = 2

\* The sum of a function's values over its (finite) domain.
RECURSIVE SumFn(_)
SumFn(f) ==
    IF DOMAIN f = {} THEN 0
    ELSE LET x == CHOOSE x \in DOMAIN f : TRUE
         IN  f[x] + SumFn([y \in DOMAIN f \ {x} |-> f[y]])

\* The initialized venues whose get_balance did not raise in the call just made.
NonFailing ==
    {v \in Registered : InSeq(initialized_exchanges, v) /\ ~orch_call.replies[v].raises}

\* What one venue holds of the asset asked for, free or locked.
VenueHolding(v, field) ==
    LET rows == orch_call.replies[v].balances
    IN  SumFn([i \in {i \in DOMAIN rows : rows[i].asset = orch_call.asset} |->
                  rows[i][field]])

\* C7: get_aggregated_balance(asset) returns without raising whichever
\* initialized venues raise on get_balance; total_free and total_locked are
\* the sums of the asset's free and locked balances over exactly the
\* initialized venues that did not raise, and total is their sum.
C7_BalanceIsolation ==
    orch_call.op = "get_aggregated_balance"
        => /\ ~orch_result.raised
           /\ orch_result.total_free = SumFn([v \in NonFailing |-> VenueHolding(v, "free")])
           /\ orch_result.total_locked = SumFn([v \in NonFailing |-> VenueHolding(v, "locked")])
           /\ orch_result.total = orch_result.total_free + orch_result.total_locked

\* Three venues registered and initialized, the first of them raises, the
\* other two hold the asset.
C7_Witness ==
    /\ orch_call.op = "get_aggregated_balance"
    /\ Len(exchanges) = 3
    /\ \A v \in Registered : InSeq(initialized_exchanges, v)
    /\ orch_call.replies[exchanges[1]].raises
    /\ Cardinality(NonFailing) = 2
    /\ \A v \in NonFailing : VenueHolding(v, "free") > 0
    /\ orch_result.total_free > 0

\* The initialized venues whose ticker returned a quote in the call just made.
Quoting ==
    {v \in Registered : InSeq(initialized_exchanges, v) /\ ~orch_call.replies[v].raises}

\* C9: get_best_price returns as best_exchange an initialized venue that
\* quoted, with the lowest ask of all quoting venues for a buy (highest bid
\* for a sell); best_price and all_prices give every quote under the venue
\* that produced it; the call raises only when no venue quoted.
C9_BestPriceAttribution ==
    orch_call.op = "get_best_price"
        => IF Quoting = {} THEN orch_result.raised
           ELSE LET q == orch_call.replies
                    best == orch_result.best_exchange
                IN  /\ ~orch_result.raised
                    /\ best \in Quoting
                    /\ orch_call.side = "buy"
                          => /\ orch_result.best_price = q[best].ask
                             /\ \A v \in Quoting : q[best].ask <= q[v].ask
                    /\ orch_call.side = "sell"
                          => /\ orch_result.best_price = q[best].bid
                             /\ \A v \in Quoting : q[best].bid >= q[v].bid
                    /\ \A i \in DOMAIN orch_result.all_prices :
                          LET p == orch_result.all_prices[i]
                          IN  /\ p.name \in Quoting
                              /\ p.bid = q[p.name].bid
                              /\ p.ask = q[p.name].ask
                              /\ p.last = q[p.name].last
                    /\ \A v \in Quoting :
                          \E i \in DOMAIN orch_result.all_prices :
                              orch_result.all_prices[i].name = v

\* C10: the result of a replicate_trade call that returned has, for every
\* requested target, an entry under that venue's name: the filled order when
\* the placement succeeded, an error entry when it failed or the venue is not
\* registered.
C10_TargetsAccounted ==
    (orch_call.op = "replicate_trade" /\ ~orch_result.raised)
        => \A i \in DOMAIN orch_call.target_exchanges :
              LET target == orch_call.target_exchanges[i]
                  placed == /\ target \in Registered
                            /\ orch_call.replies[target] = "filled"
              IN  \E j \in 2..Len(orch_result.results) :
                     /\ orch_result.results[j].exchange = target
                     /\ (orch_result.results[j].status = "filled") <=> placed

(***************************************************************************)
(* PnLCalculator                                                           *)
(***************************************************************************)
RMin(a, b) == IF RLe(a, b) THEN a ELSE b
RMax(a, b) == IF RLe(a, b) THEN b ELSE a

\* Decimal / float written as the fraction n/d.
Q(n, d) == RNorm(n, d)

TradeExecution(symbol, side, quantity, price, fee) ==
    [id |-> "", symbol |-> symbol, side |-> side, quantity |-> quantity,
     price |-> price, fee |-> fee, timestamp |-> 0]

\* The fills a venue may report: the three of the BTC round trip on either
\* side, and a losing pair on a second symbol.
ExecutionUniverse ==
    { TradeExecution("BTC/USDT", side, x[1], x[2], x[3]) :
        side \in {"buy", "sell"},
        x \in { <<R(1), R(40000), R(40)>>, <<Q(1, 2), R(42000), R(0)>>,
                <<Q(6, 5), R(45000), R(54)>> } }
    \cup { TradeExecution("ETH/USDT", "buy", R(2), R(3000), R(6)),
           TradeExecution("ETH/USDT", "sell", R(2), R(2500), R(5)) }

\* executions.sort(key=timestamp): the lists handed to _process_executions,
\* the i-th fill made at second i.
ExecutionLists ==
    UNION { { [i \in 1..n |-> [u[i] EXCEPT !.id = "x" \o ToString(i),
                                           !.timestamp = i * 1000]] :
              u \in [1..n -> ExecutionUniverse] } : n \in 0..MaxExecs }

\* The share of the lot's remaining fee that goes with match_qty of it.
entry_fee_of(lot, match_qty) == RMul(lot.fee, RDiv(match_qty, lot.initial_quantity))

\* One pass of the while loop: the ClosedTrade for match_qty of exec against lot.
ClosedTrade(exec, lot, match_qty) ==
    LET entry_price == lot.price
        exit_price == exec.price
        gross_pnl == IF lot.side = "buy"
                     THEN RMul(RSub(exit_price, entry_price), match_qty)
                     ELSE RMul(RSub(entry_price, exit_price), match_qty)
        entry_fee == entry_fee_of(lot, match_qty)
        exit_fee == IF RLt(R(0), exec.quantity)
                    THEN RMul(exec.fee, RDiv(match_qty, exec.quantity))
                    ELSE R(0)
        total_fee == RAdd(entry_fee, exit_fee)
        net_pnl == RSub(gross_pnl, total_fee)
        invested == RMul(entry_price, match_qty)
        roi == IF RLt(R(0), invested) THEN RMul(RDiv(net_pnl, invested), R(100))
               ELSE R(0)
    IN  [symbol |-> exec.symbol,
         entry_date |-> Q(lot.timestamp, 1000),
         exit_date |-> Q(exec.timestamp, 1000),
         duration_seconds |-> Q(exec.timestamp - lot.timestamp, 1000),
         side |-> IF lot.side = "buy" THEN "long" ELSE "short",
         quantity |-> match_qty,
         entry_price |-> entry_price,
         exit_price |-> exit_price,
         gross_pnl |-> gross_pnl,
         fee |-> total_fee,
         net_pnl |-> net_pnl,
         roi_percentage |-> roi]

\* A lot that keeps its quantity when part of it is closed.
reduce_lot_keeping_quantity(lot, match_qty) ==
    [lot EXCEPT !.fee = RSub(@, entry_fee_of(lot, match_qty))]

\* The lot after match_qty of it was closed.
reduce_lot(lot, match_qty) ==
    [lot EXCEPT !.quantity = RSub(@, match_qty),
                !.fee = RSub(@, entry_fee_of(lot, match_qty))]

\* A matching loop that closes the newest open lot first.
RECURSIVE match_lots_newest_first(_, _, _, _)
match_lots_newest_first(exec, open_lots, remaining_qty, closed) ==
    IF ~(RLt(R(0), remaining_qty) /\ open_lots # <<>>)
    THEN [open_lots |-> open_lots, remaining_qty |-> remaining_qty, closed |-> closed]
    ELSE LET n == Len(open_lots)
             newest_lot == open_lots[n]
         IN  IF newest_lot.side = exec.side
             THEN [open_lots |-> open_lots, remaining_qty |-> remaining_qty,
                   closed |-> closed]
             ELSE LET match_qty == RMin(remaining_qty, newest_lot.quantity)
                      trade == ClosedTrade(exec, newest_lot, match_qty)
                      lot == reduce_lot(newest_lot, match_qty)
                  IN  match_lots_newest_first(exec,
                          IF RLe(lot.quantity, R(0)) THEN SubSeq(open_lots, 1, n - 1)
                          ELSE SubSeq(open_lots, 1, n - 1) \o <<lot>>,
                          RSub(remaining_qty, match_qty),
                          Append(closed, trade))

\* _process_executions, the loop "while remaining_qty > 0 and open_lots".
RECURSIVE match_lots(_, _, _, _)
match_lots(exec, open_lots, remaining_qty, closed) ==
    IF ~(RLt(R(0), remaining_qty) /\ open_lots # <<>>)
    THEN [open_lots |-> open_lots, remaining_qty |-> remaining_qty, closed |-> closed]
    ELSE LET oldest_lot == open_lots[1]
         IN  IF oldest_lot.side = exec.side
             THEN [open_lots |-> open_lots, remaining_qty |-> remaining_qty,
                   closed |-> closed]
             ELSE LET match_qty == RMin(remaining_qty, oldest_lot.quantity)
                      trade == ClosedTrade(exec, oldest_lot, match_qty)
                      lot == reduce_lot(oldest_lot, match_qty)
                  IN  match_lots(exec,
                          IF RLe(lot.quantity, R(0)) THEN Tail(open_lots)
                          ELSE <<lot>> \o Tail(open_lots),
                          RSub(remaining_qty, match_qty),
                          Append(closed, trade))

\* self.positions.get(symbol, []) after "if symbol not in self.positions".
lots_of(pos, symbol) == IF symbol \in DOMAIN pos THEN pos[symbol] ELSE <<>>

\* _process_executions, the loop over executions from index i.
RECURSIVE process_loop(_, _, _)
process_loop(execs, i, st) ==
    IF i > Len(execs) THEN st
    ELSE LET exec == execs[i]
             m == match_lots(exec, lots_of(st.positions, exec.symbol),
                             exec.quantity, st.closed_trades)
             open_lots ==
                 IF RLt(R(0), m.remaining_qty)
                 THEN Append(m.open_lots,
                        [quantity |-> m.remaining_qty,
                         initial_quantity |-> m.remaining_qty,
                         price |-> exec.price,
                         side |-> exec.side,
                         timestamp |-> exec.timestamp,
                         fee |-> IF RLt(R(0), exec.quantity)
                                 THEN RMul(exec.fee, RDiv(m.remaining_qty, exec.quantity))
                                 ELSE R(0)])
                 ELSE m.open_lots
         IN  process_loop(execs, i + 1,
                 [positions |-> [s \in DOMAIN st.positions \cup {exec.symbol} |->
                                    IF s = exec.symbol THEN open_lots
                                    ELSE st.positions[s]],
                  closed_trades |-> m.closed])

_process_executions(execs) ==
    process_loop(execs, 1, [positions |-> [s \in {} |-> <<>>], closed_trades |-> <<>>])

\* sum(f(t) for t in trades), f given as the list of its values.
RECURSIVE RSum(_)
RSum(values) == IF values = <<>> THEN R(0) ELSE RAdd(Head(values), RSum(Tail(values)))

\* round(x, 2) for x >= 0: the nearest hundredth, a tie going to the even one.
round2(x) ==
    LET p == x[1] * 100
        q == x[2]
        f == p \div q
        r == p - f * q
        up == \/ 2 * r > q
              \/ 2 * r = q /\ f % 2 = 1
    IN  Q(IF up THEN f + 1 ELSE f, 100)

\* float('inf') and an ordinary profit factor.
Inf == [inf |-> TRUE, value |-> R(0)]
Finite(x) == [inf |-> FALSE, value |-> x]

\* x carries the figures (see metrics below); generated_at is the dataclass default.
ReputationScore(trader_id, x, score, generated_at) ==
    [trader_id |-> trader_id, total_trades |-> x.total_trades,
     winning_trades |-> x.winning_trades, losing_trades |-> x.losing_trades,
     win_rate |-> x.win_rate, total_pnl_usd |-> x.total_pnl,
     profit_factor |-> x.profit_factor, average_roi |-> x.avg_roi,
     score |-> score, generated_at |-> generated_at]

\* The figures of an empty list of trades.
no_trades ==
    [total_trades |-> 0, winning_trades |-> 0, losing_trades |-> 0,
     total_pnl |-> R(0), win_rate |-> R(0), profit_factor |-> Finite(R(0)),
     avg_roi |-> R(0)]

\* The weighted score with the profit-factor points left unclamped.
final_score_unclamped(win_rate, profit_factor, avg_roi, total_trades) ==
    LET score_win_rate == RMin(win_rate, R(100))
        score_pf == IF profit_factor.inf THEN R(100)
                    ELSE RMul(profit_factor.value, R(33))
        score_roi == RMin(RMax(RMul(avg_roi, R(5)), R(0)), R(100))
        score_activity == RMin(R(total_trades * 2), R(100))
    IN  RAdd(RAdd(RMul(score_win_rate, Q(30, 100)), RMul(score_pf, Q(30, 100))),
             RAdd(RMul(score_roi, Q(20, 100)), RMul(score_activity, Q(20, 100))))

\* The weighted score of _calculate_metrics.
final_score(win_rate, profit_factor, avg_roi, total_trades) ==
    LET score_win_rate == RMin(win_rate, R(100))
        score_pf == IF profit_factor.inf THEN R(100)
                    ELSE RMin(RMul(profit_factor.value, R(33)), R(100))
        score_roi == RMin(RMax(RMul(avg_roi, R(5)), R(0)), R(100))
        score_activity == RMin(R(total_trades * 2), R(100))
    IN  RAdd(RAdd(RMul(score_win_rate, Q(30, 100)), RMul(score_pf, Q(30, 100))),
             RAdd(RMul(score_roi, Q(20, 100)), RMul(score_activity, Q(20, 100))))

\* The figures of _calculate_metrics for a non-empty list, score left out.
metrics(trades) ==
    LET net(i) == trades[i].net_pnl
        idx == DOMAIN trades
        total_trades == Len(trades)
        winning_trades == Cardinality({i \in idx : RLt(R(0), net(i))})
        losing_trades == Cardinality({i \in idx : RLe(net(i), R(0))})
        total_pnl == RSum([i \in idx |-> net(i)])
        gross_profit == RSum([i \in idx |-> IF RLt(R(0), net(i)) THEN net(i) ELSE R(0)])
        loss_sum == RSum([i \in idx |-> IF RLt(net(i), R(0)) THEN net(i) ELSE R(0)])
        gross_loss == <<RAbs(loss_sum[1]), loss_sum[2]>>
    IN  [total_trades |-> total_trades,
         winning_trades |-> winning_trades,
         losing_trades |-> losing_trades,
         total_pnl |-> total_pnl,
         win_rate |-> RMul(Q(winning_trades, total_trades), R(100)),
         profit_factor |-> IF RLt(R(0), gross_loss) THEN Finite(RDiv(gross_profit, gross_loss))
                           ELSE IF RLt(R(0), gross_profit) THEN Inf
                           ELSE Finite(R(0)),
         avg_roi |-> RDiv(RSum([i \in idx |-> trades[i].roi_percentage]),
                          R(total_trades))]

\* A reputation whose activity points wear off with the time of the call.
_calculate_metrics_aging(trades, trader_id, t) ==
    IF trades = <<>>
    THEN ReputationScore(trader_id, no_trades, R(0), t)
    ELSE LET x == metrics(trades)
         IN  ReputationScore(trader_id, x,
                 round2(RAdd(final_score(x.win_rate, x.profit_factor, x.avg_roi,
                                         x.total_trades),
                             Q(t, 100))),
                 0)

\* _calculate_metrics called at time t: generated_at is filled in by the
\* dataclass default datetime.utcnow.
_calculate_metrics(trades, trader_id, t) ==
    IF trades = <<>>
    THEN ReputationScore(trader_id, no_trades, R(0), t)
    ELSE LET x == metrics(trades)
         IN  ReputationScore(trader_id, x,
                 round2(final_score(x.win_rate, x.profit_factor, x.avg_roi,
                                    x.total_trades)),
                 t)

\* A list of executions handed over, nothing computed yet.
PnlInit ==
    /\ MonIdle
    /\ EngIdle
    /\ OrchIdle
    /\ SvcIdle
    /\ CheckIdle
    /\ LoopIdle
    /\ CalcIdle
    /\ FpIdle
    /\ TaskIdle
    /\ IdIdle
    /\ StallIdle
    /\ SubIdle
    /\ BusIdle
    /\ RaceIdle
    /\ SessIdle
    /\ executions \in ExecutionLists
    /\ pnl_positions = [s \in {} |-> <<>>]
    /\ closed_trades = <<>>
    /\ scores = <<>>
    /\ utcnow = 0
    /\ pnl_pc = "input"

\* calculate_performance / calculate_from_ccxt_trades, step 3:
\* _process_executions resets self.positions and fills it again.
ProcessExecutions ==
    /\ pnl_pc = "input"
    /\ LET st == _process_executions(executions)
       IN  /\ pnl_positions' = st.positions
           /\ closed_trades' = st.closed_trades
    /\ pnl_pc' = "closed"
    /\ UNCHANGED <<executions, scores, utcnow>>
    /\ UNCHANGED <<monVars, engVars, orchVars, svcVars, sessVars, raceVars, busVars, subVars, stallVars, idVars, taskVars, fpVars, calcVars, loopVars, checkVars>>

\* _calculate_metrics on the closed trades, now or a while later.
CalculateMetrics ==
    /\ pnl_pc = "closed"
    /\ Len(scores) < MaxCalls
    /\ \E later \in {0, 1} :
         /\ utcnow' = utcnow + later
         /\ scores' = Append(scores, _calculate_metrics(closed_trades, "t1", utcnow + later))
    /\ UNCHANGED <<executions, pnl_positions, closed_trades, pnl_pc>>
    /\ UNCHANGED <<monVars, engVars, orchVars, svcVars, sessVars, raceVars, busVars, subVars, stallVars, idVars, taskVars, fpVars, calcVars, loopVars, checkVars>>

PnlNext == ProcessExecutions \/ CalculateMetrics

SpecPnl == PnlInit /\ [][PnlNext]_vars

(***************************************************************************)
(* Claims about the P&L calculator                                         *)
(***************************************************************************)
Opposite(side) == IF side = "buy" THEN "sell" ELSE "buy"

\* The executions are buy 1.0 @ 40000, buy 0.5 @ 42000, sell 1.2 @ 45000 of
\* one symbol when opening = "buy", and the same with buy and sell swapped
\* when opening = "sell".
IsRoundTrip(opening) ==
    /\ Len(executions) = 3
    /\ \A i \in 1..3 : executions[i].symbol = "BTC/USDT"
    /\ executions[1].side = opening
    /\ executions[1].quantity = R(1) /\ executions[1].price = R(40000)
    /\ executions[2].side = opening
    /\ executions[2].quantity = Q(1, 2) /\ executions[2].price = R(42000)
    /\ executions[3].side = Opposite(opening)
    /\ executions[3].quantity = Q(6, 5) /\ executions[3].price = R(45000)

\* Two ClosedTrades, 1.0 from the 40000 lot and 0.2 from the 42000 lot, and
\* one open lot of 0.3 @ 42000; sign is 1 for long trades and -1 for short.
RoundTripResult(opening, trade_side, sign) ==
    /\ Len(closed_trades) = 2
    /\ closed_trades[1].side = trade_side
    /\ closed_trades[1].quantity = R(1)
    /\ closed_trades[1].entry_price = R(40000)
    /\ closed_trades[1].exit_price = R(45000)
    /\ closed_trades[1].gross_pnl = R(sign * 5000)
    /\ closed_trades[2].side = trade_side
    /\ closed_trades[2].quantity = Q(1, 5)
    /\ closed_trades[2].entry_price = R(42000)
    /\ closed_trades[2].exit_price = R(45000)
    /\ closed_trades[2].gross_pnl = R(sign * 600)
    /\ Len(pnl_positions["BTC/USDT"]) = 1
    /\ pnl_positions["BTC/USDT"][1].side = opening
    /\ pnl_positions["BTC/USDT"][1].quantity = Q(3, 10)
    /\ pnl_positions["BTC/USDT"][1].price = R(42000)

\* The execution a ClosedTrade entered on and the one it exited on.
EntryOf(trade) ==
    CHOOSE i \in DOMAIN executions :
        /\ executions[i].symbol = trade.symbol
        /\ Q(executions[i].timestamp, 1000) = trade.entry_date

ExitOf(trade) ==
    CHOOSE i \in DOMAIN executions :
        /\ executions[i].symbol = trade.symbol
        /\ Q(executions[i].timestamp, 1000) = trade.exit_date

\* What is left of execution i in the open lots.
OpenQuantity(i) ==
    LET lots == pnl_positions[executions[i].symbol]
    IN  RSum([k \in DOMAIN lots |->
                 IF lots[k].timestamp = executions[i].timestamp
                 THEN lots[k].quantity ELSE R(0)])

\* What of execution i went into ClosedTrades, as their entry or their exit.
ClosedQuantity(i) ==
    RSum([k \in DOMAIN closed_trades |->
             IF closed_trades[k].symbol = executions[i].symbol
                /\ i \in {EntryOf(closed_trades[k]), ExitOf(closed_trades[k])}
             THEN closed_trades[k].quantity ELSE R(0)])

\* C4: _process_executions closes lots oldest-first against executions of
\* the opposite side. Every ClosedTrade pairs an earlier execution (its
\* entry, at that lot's price) with a later one of the opposite side, for a
\* positive quantity, with gross (exit-entry)*qty when long and
\* (entry-exit)*qty when short; the ClosedTrades of a symbol enter in lot
\* order; every execution's quantity is split between ClosedTrades and one
\* open lot, and the open lots of a symbol are all on one side. The worked
\* round trip gives 1.0 with gross 5000, 0.2 with gross 600 and an open long
\* lot of 0.3 @ 42000, and with buy and sell swapped the same matches as
\* shorts with the sign of the P&L reversed.
C4_FifoMatching ==
    pnl_pc = "closed" =>
        /\ \A k \in DOMAIN closed_trades :
              LET t == closed_trades[k]
                  entry == executions[EntryOf(t)]
                  exit == executions[ExitOf(t)]
              IN  /\ RLt(R(0), t.quantity)
                  /\ entry.timestamp < exit.timestamp
                  /\ exit.side = Opposite(entry.side)
                  /\ t.side = IF entry.side = "buy" THEN "long" ELSE "short"
                  /\ t.entry_price = entry.price
                  /\ t.exit_price = exit.price
                  /\ t.gross_pnl =
                        IF t.side = "long"
                        THEN RMul(RSub(t.exit_price, t.entry_price), t.quantity)
                        ELSE RMul(RSub(t.entry_price, t.exit_price), t.quantity)
        /\ \A k \in DOMAIN closed_trades : \A l \in DOMAIN closed_trades :
              (k < l /\ closed_trades[k].symbol = closed_trades[l].symbol)
                  => RLe(closed_trades[k].entry_date, closed_trades[l].entry_date)
        /\ \A i \in DOMAIN executions :
              executions[i].quantity = RAdd(ClosedQuantity(i), OpenQuantity(i))
        /\ \A s \in DOMAIN pnl_positions :
              \A k \in DOMAIN pnl_positions[s] :
                  /\ pnl_positions[s][k].side = pnl_positions[s][1].side
                  /\ RLt(R(0), pnl_positions[s][k].quantity)
        /\ IsRoundTrip("buy") => RoundTripResult("buy", "long", 1)
        /\ IsRoundTrip("sell") => RoundTripResult("sell", "short", -1)

\* The round trip of the worked example has been processed.
C4_Witness ==
    /\ pnl_pc = "closed"
    /\ IsRoundTrip("buy")
    /\ Len(closed_trades) = 2
    /\ Len(pnl_positions["BTC/USDT"]) = 1

\* Equal in every field but the generation timestamp.
SameMetrics(a, b) ==
    \A f \in DOMAIN a \ {"generated_at"} : a[f] = b[f]

C23_ScoreWithinRange ==
    \A i \in DOMAIN scores :
        /\ RLe(R(0), scores[i].score)
        /\ RLe(scores[i].score, R(100))
        /\ closed_trades = <<>> =>
              /\ scores[i].score = R(0)
              /\ scores[i].total_trades = 0
              /\ scores[i].winning_trades = 0
              /\ scores[i].losing_trades = 0
              /\ scores[i].win_rate = R(0)

\* Metrics of a list with a winning and a losing trade whose profit factor
\* is beyond the 100-point mark (3.03), so that the clamp acts.
C23_Witness ==
    /\ scores # <<>>
    /\ scores[1].winning_trades > 0
    /\ scores[1].losing_trades > 0
    /\ ~scores[1].profit_factor.inf
    /\ RLt(Q(100, 33), scores[1].profit_factor.value)

(***************************************************************************)
(* Claims about the fees of the P&L calculator                             *)
(***************************************************************************)
\* The ClosedTrades that entered on execution i, in the order they were made.
TradesOfLot(i) ==
    SelectSeq(closed_trades,
              LAMBDA t : /\ t.symbol = executions[i].symbol
                         /\ t.entry_date = Q(executions[i].timestamp, 1000))

\* The exit fee inside a ClosedTrade's fee: the exit execution's fee by the
\* matched share of its quantity; the rest is the entry fee charged.
ExitFeeOf(trade) ==
    LET exit == executions[ExitOf(trade)]
    IN  RMul(exit.fee, RDiv(trade.quantity, exit.quantity))

EntryFeeOf(trade) == RSub(trade.fee, ExitFeeOf(trade))

\* The fee the lot opened by execution i started with: the execution's fee by
\* the share of its quantity that opened the lot (what was closed of the lot
\* plus what is left of it).
OriginalLotFee(i) ==
    RMul(executions[i].fee,
         RDiv(RAdd(RSum([k \in DOMAIN TradesOfLot(i) |-> TradesOfLot(i)[k].quantity]),
                   OpenQuantity(i)),
              executions[i].quantity))

\* C31: the entry fee of every ClosedTrade is its lot's original fee by the
\* matched share of the lot's original quantity, so the entry fees of the
\* ClosedTrades of a fully closed lot sum to the lot's original fee.
C31_EntryFeesSumToLotFee ==
    pnl_pc = "closed" =>
        \A i \in DOMAIN executions :
            (TradesOfLot(i) # <<>> /\ OpenQuantity(i) = R(0)) =>
                RSum([k \in DOMAIN TradesOfLot(i) |-> EntryFeeOf(TradesOfLot(i)[k])])
                    = OriginalLotFee(i)

(***************************************************************************)
(* Claims about the open lots of the P&L calculator                        *)
(***************************************************************************)
\* The execution made at second date (the executions of a list are made at
\* different times).
ExecutionAt(date) ==
    executions[CHOOSE i \in DOMAIN executions : Q(executions[i].timestamp, 1000) = date]

Signed(side, quantity) == IF side = "buy" THEN quantity ELSE RSub(R(0), quantity)

\* Total bought minus total sold of symbol s over the processed executions.
NetExecuted(s) ==
    RSum([i \in DOMAIN executions |->
             IF executions[i].symbol = s
             THEN Signed(executions[i].side, executions[i].quantity) ELSE R(0)])

\* The signed sum of the open lots of symbol s.
NetOpen(s) ==
    RSum([k \in DOMAIN lots_of(pnl_positions, s) |->
             Signed(pnl_positions[s][k].side, pnl_positions[s][k].quantity)])

\* C40: after every execution processed by _process_executions, the open
\* lots of a symbol are all on one side with a quantity above zero and come
\* from executions of that symbol, the bought minus the sold quantity of a
\* symbol is the signed sum of its open lots, and every ClosedTrade pairs a
\* lot and an execution of its own symbol and of opposite sides.
C40_LotsConsistent ==
    pnl_pc = "closed" =>
        /\ \A s \in DOMAIN pnl_positions :
              \A k \in DOMAIN pnl_positions[s] :
                  LET lot == pnl_positions[s][k]
                  IN  /\ lot.side = pnl_positions[s][1].side
                      /\ RLt(R(0), lot.quantity)
                      /\ ExecutionAt(Q(lot.timestamp, 1000)).symbol = s
                      /\ ExecutionAt(Q(lot.timestamp, 1000)).side = lot.side
        /\ \A s \in {executions[i].symbol : i \in DOMAIN executions} :
              NetExecuted(s) = NetOpen(s)
        /\ \A k \in DOMAIN closed_trades :
              LET t == closed_trades[k]
                  entry == ExecutionAt(t.entry_date)
                  exit == ExecutionAt(t.exit_date)
              IN  /\ entry.symbol = t.symbol
                  /\ exit.symbol = t.symbol
                  /\ exit.side = Opposite(entry.side)

\* C40 witness: two symbols have open lots after a lot of one of them was
\* closed in part.
C40_Witness ==
    /\ pnl_pc = "closed"
    /\ closed_trades # <<>>
    /\ Cardinality({s \in DOMAIN pnl_positions : pnl_positions[s] # <<>>}) = 2
    /\ \E s \in DOMAIN pnl_positions : \E k \in DOMAIN pnl_positions[s] :
          pnl_positions[s][k].quantity # pnl_positions[s][k].initial_quantity

(***************************************************************************)
(* Claims about the profit factor without losses                           *)
(***************************************************************************)
\* get_user_performance: the profit_factor field of its PerformanceResponse.
PerformanceResponse_profit_factor(reputation_score) ==
    IF reputation_score.profit_factor # Inf
    THEN reputation_score.profit_factor
    ELSE Finite(Q(99999, 100))

AllWinning(trades) ==
    /\ trades # <<>>
    /\ \A k \in DOMAIN trades : RLt(R(0), trades[k].net_pnl)

\* C32: for a non-empty list of ClosedTrades with positive profit and no
\* losing trade, the profit_factor of the ReputationScore is a finite maximum
\* value, not infinity (the composite score is a number of [0, 100]).
C32_ProfitFactorFinite ==
    \A i \in DOMAIN scores :
        AllWinning(closed_trades) =>
            /\ ~scores[i].profit_factor.inf
            /\ RLe(R(0), scores[i].score) /\ RLe(scores[i].score, R(100))

(***************************************************************************)
(* Claims about the order of the orchestrator's adapter calls              *)
(***************************************************************************)
\* The source placement of the replicate_trade call just made failed: the
\* source is not registered or its adapter raised.
SourceFailed ==
    \/ orch_call.source_exchange \notin Registered
    \/ orch_call.replies[orch_call.source_exchange] \notin ReturnedStatuses

CopiesDue(e) ==
    {i \in DOMAIN eng_obs.followers :
        LET f == eng_obs.followers[i]
            config == eng_obs.configs_before[f.id]
        IN  /\ f.trader_id = e.trader_id /\ f.is_copying /\ f.is_active
            /\ config.is_active /\ ~config.is_paused
            /\ RLt(R(0), _calculate_copy_amount(config, e))
            /\ <<f.follower_id, e.exchange>> \in APIKeyStore
            /\ eng_obs.outcome[f.follower_id] = "ok"}

Copyable(e) ==
    e.event_type \in {"order_filled", "position_opened", "position_updated"}

\* C12: when one event is processed for several followers, every follower
\* whose own steps succeed has its order dispatched and its copy recorded,
\* whatever failed for the others.
C12_FailureIsolated ==
    eng_obs # NoDelivery =>
        \A e \in bus : (e.event_id = eng_obs.event_id /\ Copyable(e)) =>
            \A i \in CopiesDue(e) :
                LET f == eng_obs.followers[i]
                IN  /\ \E k \in (eng_obs.orders_before + 1)..Len(replica_orders) :
                          replica_orders[k].follower_rel_id = f.id
                    /\ configs[f.id].total_copied_trades =
                           eng_obs.configs_before[f.id].total_copied_trades + 1

\* The orders the observed _process_trade_event call placed.
OrdersDispatched == (eng_obs.orders_before + 1)..Len(replica_orders)

\* The follower row a replica order was placed for, as the call saw it.
RowOf(order) ==
    CHOOSE f \in {eng_obs.followers[i] : i \in DOMAIN eng_obs.followers} :
        f.id = order.follower_rel_id

\* C14: an order is dispatched for a follower only if the event's kind is
\* order_filled, position_opened or position_updated and, when the event is
\* processed, the relationship is of the event's trader, active and copying
\* and its config is active and not paused; an event of any other kind
\* dispatches nothing.
C14_DispatchGated ==
    eng_obs # NoDelivery =>
        \A e \in bus : e.event_id = eng_obs.event_id =>
            /\ ~Copyable(e) => OrdersDispatched = {}
            /\ \A k \in OrdersDispatched :
                 LET f == RowOf(replica_orders[k])
                     config == eng_obs.configs_before[f.id]
                 IN  /\ Copyable(e)
                     /\ f.trader_id = e.trader_id
                     /\ f.is_active /\ f.is_copying
                     /\ config.is_active /\ ~config.is_paused

\* An event was processed while f1 was paused and the third relationship was
\* not copying: f2 got its order, f1 and f3 none.
C14_Witness ==
    /\ eng_obs # NoDelivery
    /\ eng_obs.configs_before["f1"].is_paused
    /\ ~eng_obs.followers[3].is_copying
    /\ {replica_orders[k].follower_rel_id : k \in OrdersDispatched} = {"f2"}

(***************************************************************************)
(* OrderExecutionService                                                   *)
(***************************************************************************)
\* The credentials dict of one user (api_key, secret, password).
Credentials(user) ==
    [api_key |-> "key_" \o user, secret |-> "secret_" \o user, password |-> None]

\* What exchange.create_order does on one attempt.
CreateReplies == {"ok", "network_error", "exchange_error"}

\* OrderExecutionService.get_exchange: the instance is created from the
\* credentials only when the exchange_id has none yet.
get_exchange(exs, exchange_id, credentials) ==
    IF exchange_id \in DOMAIN exs THEN exs
    ELSE [x \in DOMAIN exs \cup {exchange_id} |->
             IF x = exchange_id THEN credentials ELSE exs[x]]

\* The retry loop of create_order: TRUE when an attempt returns the order.
RECURSIVE retry_loop(_, _)
retry_loop(replies, attempt) ==
    IF attempt > Len(replies) THEN FALSE
    ELSE IF replies[attempt] = "ok" THEN TRUE
    ELSE IF replies[attempt] = "network_error" THEN retry_loop(replies, attempt + 1)
    ELSE FALSE

\* OrderExecutionService.create_order, as CopyTradingWorker._execute_copy_trade
\* calls it for one follower.
CreateOrder ==
    /\ Len(service_orders) < MaxServiceOrders
    /\ \E exchange_id \in {"binance", "kraken"}, user \in {"u1", "u2"},
          replies \in [1..3 -> CreateReplies] :
         LET exs == get_exchange(service_exchanges, exchange_id, Credentials(user))
         IN  /\ service_exchanges' = exs
             /\ service_orders' =
                  IF retry_loop(replies, 1)
                  THEN Append(service_orders,
                              [exchange_id |-> exchange_id,
                               credentials |-> Credentials(user),
                               instance |-> exs[exchange_id]])
                  ELSE service_orders
    /\ UNCHANGED <<monVars, engVars, orchVars, pnlVars, sessVars, raceVars, busVars, subVars, stallVars, idVars, taskVars, fpVars, calcVars, loopVars, checkVars>>

SvcInit ==
    /\ MonIdle
    /\ EngIdle
    /\ OrchIdle
    /\ SvcIdle
    /\ CheckIdle
    /\ LoopIdle
    /\ CalcIdle
    /\ FpIdle
    /\ TaskIdle
    /\ IdIdle
    /\ StallIdle
    /\ SubIdle
    /\ BusIdle
    /\ RaceIdle
    /\ SessIdle
    /\ PnlIdle

SvcNext == CreateOrder

SpecService == SvcInit /\ [][SvcNext]_vars

(***************************************************************************)
(* Claims about credentials                                                *)
(***************************************************************************)
\* C13: every order the execution service places for a follower goes through
\* an instance built from the credentials given for that follower.
C13_OwnCredential ==
    \A k \in 1..Len(service_orders) :
        service_orders[k].instance = service_orders[k].credentials

\* The engine's side of the same: every replica order is on its event's
\* venue and its follower holds a credential for that venue.
EngineOwnCredential ==
    \A k \in 1..Len(replica_orders) :
        /\ <<replica_orders[k].follower_id, replica_orders[k].exchange>> \in APIKeyStore
        /\ \E e \in bus : /\ e.event_id = replica_orders[k].source_event
                          /\ e.exchange = replica_orders[k].exchange

(***************************************************************************)
(* Claims about the sizing modes                                           *)
(***************************************************************************)
\* The quantity the three modes are stated to give before the limits apply;
\* zero stands for no copy.
StatedAmount(config, e) ==
    IF config.copy_mode = "fixed_amount"
    THEN IF e.price = NoPrice \/ e.price = 0 THEN R(0)
         ELSE RDiv(R(config.fixed_amount_usd), R(e.price))
    ELSE IF config.copy_mode = "proportional"
    THEN RMul(R(e.quantity), Q(config.proportion_percent, 100))
    ELSE R(e.quantity)

\* C15: with no limit configured, the order placed for f1 has the quantity
\* its mode is stated to give (fixed_amount: notional / price, nothing when
\* the price is zero or absent; proportional: quantity x percent / 100 for
\* every percent and with or without a price; smart_scale: the quantity),
\* and an order is placed whenever that quantity is positive.
C15_ModeFormulas ==
    eng_obs # NoDelivery =>
        \A e \in bus :
            LET config == eng_obs.configs_before["f1"]
                mine == {k \in OrdersDispatched : replica_orders[k].follower_rel_id = "f1"}
            IN  ( /\ e.event_id = eng_obs.event_id /\ Copyable(e)
                  /\ config.min_trade_size_usd = 0 /\ config.max_trade_size_usd = 0
                  /\ <<"u1", e.exchange>> \in APIKeyStore
                  /\ eng_obs.outcome["u1"] = "ok" )
                => /\ \A k \in mine : replica_orders[k].amount = StatedAmount(config, e)
                   /\ RLt(R(0), StatedAmount(config, e)) => mine # {}

(***************************************************************************)
(* Claims about direct and fallback placement                              *)
(***************************************************************************)
\* C16: place_order raises and calls no adapter when the venue is not
\* registered or is registered without a successful initialize(); otherwise
\* it calls exactly that venue's adapter, once.
C16_PlaceOrderGuarded ==
    orch_call.op = "place_order" =>
        IF /\ InSeq(exchanges, orch_call.exchange_name)
           /\ InSeq(initialized_exchanges, orch_call.exchange_name)
        THEN /\ Len(orch_result.calls) = 1
             /\ orch_result.calls[1].venue = orch_call.exchange_name
        ELSE orch_result.raised /\ orch_result.calls = <<>>

\* The registered venues of the list given to the fallback call, in list order.
ListedRegistered ==
    SelectSeq(orch_call.preferred_exchanges, LAMBDA name : InSeq(exchanges, name))

ExchangeOf(trader_id) == IF trader_id = "t1" THEN "binance" ELSE "kraken"

\* How _init_connector goes: a connector is created and its initialize()
\* succeeds ("ok"), no APIKeyStore row ("no_creds"), no secrets
\* ("no_secrets"), or the connector's initialize() fails ("init_fails").
InitOutcomes == {"ok", "no_creds", "no_secrets", "init_fails"}

ConnectorIds(cs) == {cs[i].session_id : i \in DOMAIN cs}

\* self.connectors[session_id] = connector
PutConnector(cs, session_id, adapter) ==
    IF session_id \in ConnectorIds(cs)
    THEN [i \in DOMAIN cs |-> IF cs[i].session_id = session_id
                              THEN [cs[i] EXCEPT !.adapter = adapter] ELSE cs[i]]
    ELSE Append(cs, [session_id |-> session_id, adapter |-> adapter])

\* create_connector: the connector is returned whatever initialize() returned.
create_connector(ads, outcome) ==
    Append(ads, [initialized |-> (outcome = "ok"), closed |-> FALSE])

\* TradeMonitor._init_connector on the row session_id; st = [rows,
\* connectors, active_sessions, adapters].
_init_connector(st, session_id, outcome) ==
    IF outcome \in {"no_creds", "no_secrets"} THEN st
    ELSE LET ads == create_connector(st.adapters, outcome)
         IN  [rows |-> [st.rows EXCEPT ![session_id].connection_status = "connected"],
              connectors |-> PutConnector(st.connectors, session_id, Len(ads)),
              active_sessions |-> st.active_sessions \cup {session_id},
              adapters |-> ads]

\* The select of add_session: the ids of the active rows of the trader on
\* its venue.
existing_sessions(rows, trader_id) ==
    {i \in DOMAIN rows : /\ rows[i].trader_id = trader_id
                         /\ rows[i].exchange = ExchangeOf(trader_id)
                         /\ rows[i].is_active}

\* The rest of add_session once the select found nothing: the row is
\* inserted and committed and _init_connector runs on it.
create_session(st, trader_id, outcome) ==
    _init_connector(
      [st EXCEPT !.rows = Append(st.rows,
                     [trader_id |-> trader_id, exchange |-> ExchangeOf(trader_id),
                      is_active |-> TRUE, connection_status |-> "initializing"])],
      Len(st.rows) + 1, outcome)

\* TradeMonitor.add_session
add_session(st, trader_id, outcome) ==
    IF \E i \in DOMAIN st.rows : /\ st.rows[i].trader_id = trader_id
                                 /\ st.rows[i].exchange = ExchangeOf(trader_id)
                                 /\ st.rows[i].is_active
    THEN st
    ELSE _init_connector(
           [st EXCEPT !.rows = Append(st.rows,
                          [trader_id |-> trader_id, exchange |-> ExchangeOf(trader_id),
                           is_active |-> TRUE, connection_status |-> "initializing"])],
           Len(st.rows) + 1, outcome)

\* TradeMonitor._load_active_sessions, from the i-th row on.
RECURSIVE _load_active_sessions(_, _, _)
_load_active_sessions(st, i, outcomes) ==
    IF i > Len(st.rows) THEN st
    ELSE IF ~st.rows[i].is_active THEN _load_active_sessions(st, i + 1, outcomes)
    ELSE _load_active_sessions(_init_connector(st, i, outcomes[i]), i + 1, outcomes)

\* The close() calls of stop_monitoring over self.connectors.values(), from
\* the i-th on: an exception of close() leaves the loop and the method.
RECURSIVE close_all(_, _, _, _)
close_all(ads, cs, i, close_raises) ==
    IF i > Len(cs) THEN [adapters |-> ads, raised |-> FALSE]
    ELSE IF cs[i].adapter \in close_raises THEN [adapters |-> ads, raised |-> TRUE]
    ELSE close_all([ads EXCEPT ![cs[i].adapter].closed = TRUE], cs, i + 1, close_raises)

\* A _check_activity without its handlers: what a fetch raises reaches the
\* loop.
_check_activity_propagating(raises) ==
    [orders_called |-> TRUE, positions_called |-> (raises # "orders"), raises |-> raises,
     propagated |-> (raises # "none")]

\* TradeMonitor._check_activity: _check_orders and _check_positions catch
\* what their fetch raises, and _check_activity catches the rest.
_check_activity(raises) ==
    [orders_called |-> TRUE, positions_called |-> TRUE, raises |-> raises,
     propagated |-> FALSE]

SessionState ==
    [rows |-> monitoring_sessions, connectors |-> connectors,
     active_sessions |-> active_sessions, adapters |-> adapters]

AddSession ==
    /\ Len(monitoring_sessions) < MaxConnectors
    /\ Len(adapters) < MaxConnectors
    /\ \E trader_id \in {"t1", "t2"}, outcome \in InitOutcomes :
         LET st == add_session(SessionState, trader_id, outcome)
         IN  /\ monitoring_sessions' = st.rows
             /\ connectors' = st.connectors
             /\ active_sessions' = st.active_sessions
             /\ adapters' = st.adapters
             /\ mon_call' = [op |-> "add_session", failed |-> (outcome # "ok"),
                             session_id |-> Len(st.rows),
                             created |-> Len(st.rows) > Len(monitoring_sessions)]
    /\ UNCHANGED <<_monitoring, _monitor_task, session_ids, tick_snapshot, checked, tick_raised, last_raised, poll_ticks>>
    /\ UNCHANGED <<monVars, engVars, orchVars, pnlVars, svcVars, raceVars, busVars, subVars, stallVars, idVars, taskVars, fpVars, calcVars, loopVars, checkVars>>

\* TradeMonitor.remove_session
RemoveSession ==
    /\ \E session_id \in DOMAIN monitoring_sessions :
         /\ monitoring_sessions[session_id].is_active
         /\ monitoring_sessions' =
              [monitoring_sessions EXCEPT ![session_id].is_active = FALSE,
                                          ![session_id].connection_status = "disconnected"]
         /\ connectors' = SelectSeq(connectors, LAMBDA c : c.session_id # session_id)
         /\ adapters' = [a \in DOMAIN adapters |->
                           IF \E i \in DOMAIN connectors :
                                 /\ connectors[i].session_id = session_id
                                 /\ connectors[i].adapter = a
                           THEN [adapters[a] EXCEPT !.closed = TRUE]
                           ELSE adapters[a]]
         /\ active_sessions' = active_sessions \ {session_id}
         /\ mon_call' = NoCall
    /\ UNCHANGED <<_monitoring, _monitor_task, session_ids, tick_snapshot, checked, tick_raised, last_raised, poll_ticks>>
    /\ UNCHANGED <<monVars, engVars, orchVars, pnlVars, svcVars, raceVars, busVars, subVars, stallVars, idVars, taskVars, fpVars, calcVars, loopVars, checkVars>>

\* TradeMonitor.start_monitoring
StartMonitoring ==
    /\ ~_monitoring
    /\ Len(adapters) + Cardinality({i \in DOMAIN monitoring_sessions :
                                       monitoring_sessions[i].is_active}) <= MaxConnectors
    /\ \E outcomes \in [DOMAIN monitoring_sessions -> InitOutcomes] :
         /\ \A i \in DOMAIN monitoring_sessions :
              ~monitoring_sessions[i].is_active => outcomes[i] = "ok"
         /\ LET st == _load_active_sessions(SessionState, 1, outcomes)
            IN  /\ monitoring_sessions' = st.rows
                /\ connectors' = st.connectors
                /\ active_sessions' = st.active_sessions
                /\ adapters' = st.adapters
                /\ session_ids' = [i \in DOMAIN st.connectors |-> st.connectors[i].session_id]
                /\ tick_snapshot' = [i \in DOMAIN st.connectors |-> st.connectors[i].session_id]
    /\ _monitoring' = TRUE
    /\ _monitor_task' = "running"
    /\ checked' = {}
    /\ tick_raised' = {}
    /\ last_raised' = {}
    /\ mon_call' = NoCall
    /\ UNCHANGED poll_ticks
    /\ UNCHANGED <<monVars, engVars, orchVars, pnlVars, svcVars, raceVars, busVars, subVars, stallVars, idVars, taskVars, fpVars, calcVars, loopVars, checkVars>>

\* TradeMonitor.stop_monitoring; close_raises: the adapters whose close()
\* raises.
StopMonitoring ==
    /\ \E close_raises \in SUBSET {connectors[i].adapter : i \in DOMAIN connectors} :
         LET r == close_all(adapters, connectors, 1, close_raises)
         IN  /\ adapters' = r.adapters
             /\ connectors' = IF r.raised THEN connectors ELSE <<>>
             /\ active_sessions' = IF r.raised THEN active_sessions ELSE {}
             /\ mon_call' = [op |-> "stop_monitoring", raised |-> r.raised,
                             connectors_before |-> connectors]
    /\ _monitoring' = FALSE
    /\ _monitor_task' = IF _monitor_task = "none" THEN "none" ELSE "cancelled"
    /\ UNCHANGED <<monitoring_sessions, session_ids, tick_snapshot, checked, tick_raised, last_raised, poll_ticks>>
    /\ UNCHANGED <<monVars, engVars, orchVars, pnlVars, svcVars, raceVars, busVars, subVars, stallVars, idVars, taskVars, fpVars, calcVars, loopVars, checkVars>>

\* One pass of the for loop of _monitoring_loop: the session id at the head
\* is skipped when its connector or session object is gone, else
\* _check_activity runs on it; raises: which fetch raised, if any.
CheckActivity ==
    /\ _monitor_task = "running"
    /\ session_ids # <<>>
    /\ \E raises \in {"none", "orders", "positions"} :
         LET session_id == Head(session_ids)
             held == session_id \in ConnectorIds(connectors) /\ session_id \in active_sessions
             r == _check_activity(raises)
         IN  IF ~held
             THEN /\ raises = "none"
                  /\ session_ids' = Tail(session_ids)
                  /\ UNCHANGED <<checked, tick_raised>>
             ELSE /\ checked' = IF r.orders_called /\ r.positions_called
                                THEN checked \cup {session_id} ELSE checked
                  /\ tick_raised' = IF r.raises # "none"
                                    THEN tick_raised \cup {session_id} ELSE tick_raised
                  /\ session_ids' = IF r.propagated THEN <<>> ELSE Tail(session_ids)
    /\ UNCHANGED <<monitoring_sessions, connectors, active_sessions, adapters, _monitoring, _monitor_task, tick_snapshot, last_raised, poll_ticks, mon_call>>
    /\ UNCHANGED <<monVars, engVars, orchVars, pnlVars, svcVars, raceVars, busVars, subVars, stallVars, idVars, taskVars, fpVars, calcVars, loopVars, checkVars>>

\* The end of an iteration of _monitoring_loop: asyncio.sleep, then
\* `while self._monitoring` and a new list of the connectors' keys.
LoopSleep ==
    /\ _monitor_task = "running"
    /\ session_ids = <<>>
    /\ poll_ticks < MaxTicks
    /\ session_ids' = [i \in DOMAIN connectors |-> connectors[i].session_id]
    /\ tick_snapshot' = [i \in DOMAIN connectors |-> connectors[i].session_id]
    /\ last_raised' = tick_raised
    /\ checked' = {}
    /\ tick_raised' = {}
    /\ poll_ticks' = poll_ticks + 1
    /\ UNCHANGED <<monitoring_sessions, connectors, active_sessions, adapters, _monitoring, _monitor_task, mon_call>>
    /\ UNCHANGED <<monVars, engVars, orchVars, pnlVars, svcVars, raceVars, busVars, subVars, stallVars, idVars, taskVars, fpVars, calcVars, loopVars, checkVars>>

\* add_session up to the return of its awaited select; other calls run
\* before it goes on. With one active row the call
\* returns its id; with several scalar_one_or_none raises; with none the call
\* goes on to insert.
AddSelect ==
    /\ \E trader_id \in {"t1", "t2"} :
         LET existing == existing_sessions(monitoring_sessions, trader_id)
         IN  IF existing = {}
             THEN /\ Len(monitoring_sessions) + adds_in_flight["t1"] + adds_in_flight["t2"] < MaxConnectors
                  /\ adds_in_flight' = [adds_in_flight EXCEPT ![trader_id] = @ + 1]
                  /\ mon_call' = NoCall
             ELSE /\ mon_call' = [op |-> "add_session", failed |-> FALSE, created |-> FALSE,
                                  raised |-> Cardinality(existing) > 1,
                                  trader_id |-> trader_id,
                                  session_id |-> CHOOSE i \in existing : TRUE]
                  /\ UNCHANGED adds_in_flight
    /\ UNCHANGED <<monitoring_sessions, connectors, active_sessions, adapters>>
    /\ UNCHANGED <<_monitoring, _monitor_task, session_ids, tick_snapshot, checked, tick_raised, last_raised, poll_ticks>>
    /\ UNCHANGED <<monVars, engVars, orchVars, pnlVars, svcVars, busVars, subVars, stallVars, idVars, taskVars, fpVars, calcVars, loopVars, checkVars>>

\* add_session from the insert on, for a call whose select found no row.
AddInsert ==
    /\ \E trader_id \in {"t1", "t2"}, outcome \in InitOutcomes :
         /\ adds_in_flight[trader_id] > 0
         /\ LET st == create_session(SessionState, trader_id, outcome)
            IN  /\ monitoring_sessions' = st.rows
                /\ connectors' = st.connectors
                /\ active_sessions' = st.active_sessions
                /\ adapters' = st.adapters
                /\ mon_call' = [op |-> "add_session", failed |-> (outcome # "ok"),
                                created |-> TRUE, raised |-> FALSE,
                                trader_id |-> trader_id, session_id |-> Len(st.rows)]
         /\ adds_in_flight' = [adds_in_flight EXCEPT ![trader_id] = @ - 1]
    /\ UNCHANGED <<_monitoring, _monitor_task, session_ids, tick_snapshot, checked, tick_raised, last_raised, poll_ticks>>
    /\ UNCHANGED <<monVars, engVars, orchVars, pnlVars, svcVars, busVars, subVars, stallVars, idVars, taskVars, fpVars, calcVars, loopVars, checkVars>>

SessInit ==
    /\ MonIdle
    /\ EngIdle
    /\ OrchIdle
    /\ SvcIdle
    /\ CheckIdle
    /\ LoopIdle
    /\ CalcIdle
    /\ FpIdle
    /\ TaskIdle
    /\ IdIdle
    /\ StallIdle
    /\ SubIdle
    /\ BusIdle
    /\ RaceIdle
    /\ SessIdle
    /\ PnlIdle

SessNext ==
    \/ AddSession
    \/ RemoveSession
    \/ StartMonitoring
    \/ StopMonitoring

\* The monitor's sessions added and removed, the monitor started and
\* stopped.
SpecSessions == SessInit /\ [][SessNext]_vars

\* The monitor after start_monitoring found no active session: the loop task
\* runs over an empty connectors dict.
PollInit ==
    /\ MonIdle
    /\ EngIdle
    /\ OrchIdle
    /\ SvcIdle
    /\ CheckIdle
    /\ LoopIdle
    /\ CalcIdle
    /\ FpIdle
    /\ TaskIdle
    /\ IdIdle
    /\ StallIdle
    /\ SubIdle
    /\ BusIdle
    /\ RaceIdle
    /\ PnlIdle
    /\ monitoring_sessions = <<>>
    /\ connectors = <<>>
    /\ active_sessions = {}
    /\ adapters = <<>>
    /\ _monitoring = TRUE
    /\ _monitor_task = "running"
    /\ session_ids = <<>>
    /\ tick_snapshot = <<>>
    /\ checked = {}
    /\ tick_raised = {}
    /\ last_raised = {}
    /\ poll_ticks = 0
    /\ mon_call = NoCall

PollNext ==
    \/ AddSession
    \/ RemoveSession
    \/ CheckActivity
    \/ LoopSleep

\* The loop task polling while sessions are added and removed.
SpecPolling == PollInit /\ [][PollNext]_vars

RaceNext ==
    \/ AddSelect
    \/ AddInsert
    \/ RemoveSession

\* add_session calls running concurrently (each yields at its awaits) with
\* one another and with remove_session.
SpecAddRace == SessInit /\ [][RaceNext]_vars

(***************************************************************************)
(* Claims about the monitor's sessions and loop                            *)
(***************************************************************************)
\* C18: a session whose adapter initialization failed has connection status
\* error, holds no connector and is not polled.
C18_FailedInitExcluded ==
    (mon_call.op = "add_session" /\ mon_call.created /\ mon_call.failed) =>
        /\ monitoring_sessions[mon_call.session_id].connection_status = "error"
        /\ mon_call.session_id \notin ConnectorIds(connectors)
        /\ mon_call.session_id \notin checked

\* The session ids of the current iteration the for loop has passed.
Passed ==
    {tick_snapshot[i] : i \in 1..(Len(tick_snapshot) - Len(session_ids))}

Held == ConnectorIds(connectors) \cap active_sessions

\* C19: whatever the fetches of a session raise, every session of the
\* iteration that the loop has passed and that is still held was checked,
\* the loop task keeps running, and a held session whose fetch raised in the
\* iteration before is in the current iteration again.
C19_PollFailureContained ==
    _monitor_task = "running" =>
        /\ \A id \in Passed \cap Held : id \in checked
        /\ \A id \in last_raised \cap Held :
              \E i \in DOMAIN tick_snapshot : tick_snapshot[i] = id
        /\ (tick_raised # {} \/ last_raised # {}) => _monitoring

\* Two sessions held: the first one's fetch raised in the iteration before
\* and again in this one, and both were checked in this one.
C19_Witness ==
    /\ _monitor_task = "running"
    /\ Len(tick_snapshot) = 2
    /\ session_ids = <<>>
    /\ tick_snapshot[1] \in last_raised
    /\ tick_raised = {tick_snapshot[1]}
    /\ checked = {tick_snapshot[1], tick_snapshot[2]}

\* C20: after stop_monitoring, also when a close() raised, the loop task is
\* not running, every adapter the connectors dict held is closed and the
\* connectors and sessions registries are empty.
C20_StopReleasesAll ==
    mon_call.op = "stop_monitoring" =>
        /\ _monitor_task # "running"
        /\ \A i \in DOMAIN mon_call.connectors_before :
              adapters[mon_call.connectors_before[i].adapter].closed
        /\ connectors = <<>>
        /\ active_sessions = {}

(***************************************************************************)
(* Claims about the uniqueness of sessions                                 *)
(***************************************************************************)
\* C21: at most one active monitoring session exists per (trader, venue),
\* and an add_session for a pair that has an active session returns the id
\* of that session and creates nothing.
C21_OneActiveSessionPerPair ==
    /\ \A trader_id \in {"t1", "t2"} :
          Cardinality(existing_sessions(monitoring_sessions, trader_id)) <= 1
    /\ (mon_call.op = "add_session" /\ ~mon_call.created) =>
          /\ ~mon_call.raised
          /\ existing_sessions(monitoring_sessions, mon_call.trader_id) = {mon_call.session_id}

\* The connector entries that hold adapter a.
BoundTo(a) == {i \in DOMAIN connectors : connectors[i].adapter = a}

\* C37: between the monitor's operations every adapter it created is bound
\* to exactly one session of the connector registry or is closed.
C37_NoAdapterLeaked ==
    \A a \in DOMAIN adapters :
        \/ adapters[a].closed
        \/ Cardinality(BoundTo(a)) = 1

\* C26: the connectors registry and the active-sessions registry hold the
\* same session ids, the adapter of every registered session is live (not
\* closed), and no adapter is bound to two sessions.
C26_OneLiveAdapterPerSession ==
    /\ ConnectorIds(connectors) = active_sessions
    /\ \A i \in DOMAIN connectors : ~adapters[connectors[i].adapter].closed
    /\ \A i \in DOMAIN connectors : \A j \in DOMAIN connectors :
          connectors[i].adapter = connectors[j].adapter => i = j

(***************************************************************************)
(* The event bus: TradeMonitor publishes, CopyTradingEngine subscribes     *)
(***************************************************************************)
MaxPublished == 3

\* RedisService.publish (Redis PUBLISH): the message goes to the clients
\* subscribed at that moment and their number is returned; with no
\* subscriber it goes nowhere and 0 is returned.  bus = [listener, buffer].
publish(b, message) ==
    IF b.listener = "subscribed"
    THEN [buffer |-> Append(b.buffer, message), receivers |-> 1]
    ELSE [buffer |-> b.buffer, receivers |-> 0]

\* RedisService.publish_event: publishes the event on the channel; the
\* outcome "raise" is a connection error of the client.
publish_event(b, message, outcome) ==
    IF outcome = "raise"
    THEN [buffer |-> b.buffer, receivers |-> 0, raised |-> TRUE]
    ELSE [buffer |-> publish(b, message).buffer,
          receivers |-> publish(b, message).receivers, raised |-> FALSE]

\* One new order in _check_orders: _publish_event awaits publish_event and
\* drops what it returns, then the processed marker is set.  When the
\* publish raises, the marker is not set.
MonitorPublish ==
    /\ Len(publish_log) < MaxPublished
    /\ \E outcome \in {"ok", "raise"} :
         LET id == "evt_" \o ToString(Len(publish_log) + 1)
             r  == publish_event([listener |-> listener, buffer |-> pubsub_buffer],
                                 id, outcome)
         IN  /\ pubsub_buffer' = r.buffer
             /\ publish_log' = Append(publish_log,
                    [event_id |-> id, receivers |-> r.receivers,
                     raised |-> r.raised, marked |-> ~r.raised])
    /\ UNCHANGED <<listener, listener_got>>
    /\ UNCHANGED <<monVars, engVars, orchVars, pnlVars, svcVars, sessVars, raceVars, subVars, stallVars, idVars, taskVars, fpVars, calcVars, loopVars, checkVars>>

\* CopyTradingEngine.start: the listener task is created.
EngineStart ==
    /\ listener = "none"
    /\ listener' = "created"
    /\ UNCHANGED <<pubsub_buffer, publish_log, listener_got>>
    /\ UNCHANGED <<monVars, engVars, orchVars, pnlVars, svcVars, sessVars, raceVars, subVars, stallVars, idVars, taskVars, fpVars, calcVars, loopVars, checkVars>>

\* _event_listener: pubsub.psubscribe("trade_events:*").
Psubscribe ==
    /\ listener = "created"
    /\ listener' = "subscribed"
    /\ UNCHANGED <<pubsub_buffer, publish_log, listener_got>>
    /\ UNCHANGED <<monVars, engVars, orchVars, pnlVars, svcVars, sessVars, raceVars, subVars, stallVars, idVars, taskVars, fpVars, calcVars, loopVars, checkVars>>

\* _event_listener: one get_message that returns a message.
GetMessage ==
    /\ listener = "subscribed"
    /\ pubsub_buffer # <<>>
    /\ listener_got' = listener_got \cup {Head(pubsub_buffer)}
    /\ pubsub_buffer' = Tail(pubsub_buffer)
    /\ UNCHANGED <<listener, publish_log>>
    /\ UNCHANGED <<monVars, engVars, orchVars, pnlVars, svcVars, sessVars, raceVars, subVars, stallVars, idVars, taskVars, fpVars, calcVars, loopVars, checkVars>>

\* CopyTradingEngine.stop: the listener task is cancelled, and its
\* subscription goes with it.
EngineStop ==
    /\ listener # "none"
    /\ listener' = "none"
    /\ pubsub_buffer' = <<>>
    /\ UNCHANGED <<publish_log, listener_got>>
    /\ UNCHANGED <<monVars, engVars, orchVars, pnlVars, svcVars, sessVars, raceVars, subVars, stallVars, idVars, taskVars, fpVars, calcVars, loopVars, checkVars>>

\* service.startup_event after `await trade_monitor.start_monitoring()`:
\* the monitor's loop is running, copy_engine.start() has not run yet.
BusInit ==
    /\ MonIdle
    /\ EngIdle
    /\ OrchIdle
    /\ PnlIdle
    /\ SvcIdle
    /\ CheckIdle
    /\ LoopIdle
    /\ CalcIdle
    /\ FpIdle
    /\ TaskIdle
    /\ IdIdle
    /\ StallIdle
    /\ SubIdle
    /\ SessIdle
    /\ RaceIdle
    /\ BusIdle

BusNext ==
    \/ MonitorPublish
    \/ EngineStart
    \/ Psubscribe
    \/ GetMessage
    \/ EngineStop

SpecBus == BusInit /\ [][BusNext]_vars

\* C22: every event the monitor published reached the engine's
\* subscription or its publish reported an error; no event is marked as
\* processed without having been handed to a subscriber.
C22_PublishedIsDelivered ==
    \A i \in DOMAIN publish_log :
        /\ publish_log[i].raised \/ publish_log[i].receivers > 0
        /\ publish_log[i].marked => publish_log[i].receivers > 0

(***************************************************************************)
(* SubscriptionRepository: followers and copy_trading_configs              *)
(***************************************************************************)
MaxSubscriptions == 3

\* UniqueConstraint("trader_id", "follower_id") of followers.
uq_trader_follower(rows, trader_id, follower_id) ==
    \A i \in DOMAIN rows :
        ~(rows[i].trader_id = trader_id /\ rows[i].follower_id = follower_id)

\* SubscriptionRepository.create: a Follower row (active, not copying), and
\* a CopyTradingConfig for it with the column defaults (active, not paused).
\* The flush of a second row for the pair raises and nothing is kept.
create(st, trader_id, follower_id) ==
    IF ~uq_trader_follower(st.followers, trader_id, follower_id)
    THEN [st EXCEPT !.raised = TRUE]
    ELSE LET follower == [id |-> "f" \o ToString(Len(st.followers) + 1),
                          trader_id |-> trader_id, follower_id |-> follower_id,
                          is_active |-> TRUE, is_copying |-> FALSE,
                          unfollowed_at |-> None]
             config == [id |-> "c" \o ToString(Len(st.configs) + 1),
                        follower_rel_id |-> follower.id, trader_id |-> trader_id,
                        is_active |-> TRUE, is_paused |-> FALSE,
                        pause_reason |-> None]
         IN  [followers |-> Append(st.followers, follower),
              configs |-> Append(st.configs, config),
              raised |-> FALSE]

\* update(CopyTradingConfig).where(id == subscription_id).values(...)
update_config(rows, subscription_id, is_paused, pause_reason) ==
    [i \in DOMAIN rows |->
        IF rows[i].id = subscription_id
        THEN [rows[i] EXCEPT !.is_paused = is_paused, !.pause_reason = pause_reason]
        ELSE rows[i]]

Create ==
    /\ Len(followers_table) < MaxSubscriptions
    /\ \E trader_id \in {"t1", "t2"}, follower_id \in {"u1", "u2"} :
         LET st == create([followers |-> followers_table, configs |-> configs_table,
                           raised |-> FALSE], trader_id, follower_id)
         IN  /\ followers_table' = st.followers
             /\ configs_table' = st.configs
             /\ sub_call' = [op |-> "create", raised |-> st.raised]
    /\ UNCHANGED <<monVars, engVars, orchVars, pnlVars, svcVars, sessVars, raceVars, busVars, stallVars, idVars, taskVars, fpVars, calcVars, loopVars, checkVars>>

SubscriptionIds == {"c" \o ToString(n) : n \in 1..MaxSubscriptions}

\* SubscriptionRepository.pause
Pause ==
    /\ \E subscription_id \in SubscriptionIds :
         configs_table' = update_config(configs_table, subscription_id, TRUE, "User paused")
    /\ sub_call' = [op |-> "pause", raised |-> FALSE]
    /\ UNCHANGED followers_table
    /\ UNCHANGED <<monVars, engVars, orchVars, pnlVars, svcVars, sessVars, raceVars, busVars, stallVars, idVars, taskVars, fpVars, calcVars, loopVars, checkVars>>

\* SubscriptionRepository.resume
Resume ==
    /\ \E subscription_id \in SubscriptionIds :
         configs_table' = update_config(configs_table, subscription_id, FALSE, None)
    /\ sub_call' = [op |-> "resume", raised |-> FALSE]
    /\ UNCHANGED followers_table
    /\ UNCHANGED <<monVars, engVars, orchVars, pnlVars, svcVars, sessVars, raceVars, busVars, stallVars, idVars, taskVars, fpVars, calcVars, loopVars, checkVars>>

\* SubscriptionRepository.cancel: the config goes inactive; the follower
\* row of the config, when there is one, stops copying and is unfollowed.
Cancel ==
    /\ \E subscription_id \in SubscriptionIds :
         LET found == {i \in DOMAIN configs_table : configs_table[i].id = subscription_id}
             rels == {configs_table[i].follower_rel_id : i \in found}
         IN  /\ configs_table' = [i \in DOMAIN configs_table |->
                    IF i \in found THEN [configs_table[i] EXCEPT !.is_active = FALSE]
                    ELSE configs_table[i]]
             /\ followers_table' = [i \in DOMAIN followers_table |->
                    IF followers_table[i].id \in rels
                    THEN [followers_table[i] EXCEPT !.is_copying = FALSE,
                                                    !.unfollowed_at = "utcnow"]
                    ELSE followers_table[i]]
    /\ sub_call' = [op |-> "cancel", raised |-> FALSE]
    /\ UNCHANGED <<monVars, engVars, orchVars, pnlVars, svcVars, sessVars, raceVars, busVars, stallVars, idVars, taskVars, fpVars, calcVars, loopVars, checkVars>>

\* Both tables empty.
SubInit ==
    /\ MonIdle
    /\ EngIdle
    /\ OrchIdle
    /\ PnlIdle
    /\ SvcIdle
    /\ CheckIdle
    /\ LoopIdle
    /\ CalcIdle
    /\ FpIdle
    /\ TaskIdle
    /\ IdIdle
    /\ StallIdle
    /\ SessIdle
    /\ RaceIdle
    /\ BusIdle
    /\ SubIdle

SubNext ==
    \/ Create
    \/ Pause
    \/ Resume
    \/ Cancel

SpecSubscriptions == SubInit /\ [][SubNext]_vars

\* The configs of a follower relationship.
ConfigsOf(follower_rel_id) ==
    {i \in DOMAIN configs_table : configs_table[i].follower_rel_id = follower_rel_id}

\* The relationship is unfollowed, not active or not copying.
Disabled(follower) ==
    \/ follower.unfollowed_at # None
    \/ ~follower.is_active
    \/ ~follower.is_copying

\* C24: each follower relationship has at most one CopyTradingConfig, and a
\* disabled relationship (unfollowed, not active or not copying) has no
\* active CopyTradingConfig.
C24_OneConfigNoneWhenDisabled ==
    \A i \in DOMAIN followers_table :
        /\ Cardinality(ConfigsOf(followers_table[i].id)) <= 1
        /\ Disabled(followers_table[i]) =>
              \A c \in ConfigsOf(followers_table[i].id) : ~configs_table[c].is_active

(***************************************************************************)
(* The monitoring loop awaiting its venue calls                            *)
(***************************************************************************)
MaxWait == 3

\* Two sessions added and connected, one per trader.
TwoSessions ==
    create_session(
        create_session([rows |-> <<>>, connectors |-> <<>>, active_sessions |-> {},
                        adapters |-> <<>>], "t1", "ok"),
        "t2", "ok")

\* _monitoring_loop reaches `await self._check_activity(...)` for the
\* session at the head of session_ids, and _check_orders awaits
\* connector.exchange.fetch_orders.
VenueCall ==
    /\ _monitor_task = "running"
    /\ session_ids # <<>>
    /\ call_phase = "idle"
    /\ call_phase' = "orders"
    /\ waited' = 0
    /\ last_polled' = 0
    /\ UNCHANGED <<never_returns, session_ids>>
    /\ UNCHANGED <<monitoring_sessions, connectors, active_sessions, adapters, _monitoring, _monitor_task, tick_snapshot, checked, tick_raised, last_raised, poll_ticks, mon_call>>
    /\ UNCHANGED <<monVars, engVars, orchVars, pnlVars, svcVars, raceVars, busVars, subVars, idVars, taskVars, fpVars, calcVars, loopVars, checkVars>>

\* The venue has not answered yet; nothing in the loop bounds the await.
VenueDelay ==
    /\ call_phase # "idle"
    /\ waited < MaxWait
    /\ waited' = waited + 1
    /\ UNCHANGED <<call_phase, never_returns, last_polled, session_ids>>
    /\ UNCHANGED <<monitoring_sessions, connectors, active_sessions, adapters, _monitoring, _monitor_task, tick_snapshot, checked, tick_raised, last_raised, poll_ticks, mon_call>>
    /\ UNCHANGED <<monVars, engVars, orchVars, pnlVars, svcVars, raceVars, busVars, subVars, idVars, taskVars, fpVars, calcVars, loopVars, checkVars>>

\* The awaited fetch returns or raises (both are handled the same way
\* inside _check_orders / _check_positions): after fetch_orders comes
\* fetch_positions, after fetch_positions the heartbeat and the next
\* session id of the for loop.
VenueReturns ==
    /\ call_phase # "idle"
    /\ Head(session_ids) \notin never_returns
    /\ \E raised \in BOOLEAN :
         tick_raised' = IF raised THEN tick_raised \cup {Head(session_ids)}
                        ELSE tick_raised
    /\ IF call_phase = "orders"
       THEN /\ call_phase' = "positions"
            /\ UNCHANGED <<session_ids, last_polled, checked>>
       ELSE /\ call_phase' = "idle"
            /\ last_polled' = Head(session_ids)
            /\ checked' = checked \cup {Head(session_ids)}
            /\ session_ids' = Tail(session_ids)
    /\ waited' = 0
    /\ UNCHANGED never_returns
    /\ UNCHANGED <<monitoring_sessions, connectors, active_sessions, adapters, _monitoring, _monitor_task, tick_snapshot, last_raised, poll_ticks, mon_call>>
    /\ UNCHANGED <<monVars, engVars, orchVars, pnlVars, svcVars, raceVars, busVars, subVars, idVars, taskVars, fpVars, calcVars, loopVars, checkVars>>

\* asyncio.sleep(self._poll_interval) at the end of the for loop, then the
\* next list of the connectors' keys.
StallSleep ==
    /\ _monitor_task = "running"
    /\ session_ids = <<>>
    /\ call_phase = "idle"
    /\ session_ids' = [i \in DOMAIN connectors |-> connectors[i].session_id]
    /\ tick_snapshot' = [i \in DOMAIN connectors |-> connectors[i].session_id]
    /\ last_raised' = tick_raised
    /\ checked' = {}
    /\ tick_raised' = {}
    /\ last_polled' = 0
    /\ UNCHANGED <<call_phase, never_returns, waited>>
    /\ UNCHANGED <<monitoring_sessions, connectors, active_sessions, adapters, _monitoring, _monitor_task, poll_ticks, mon_call>>
    /\ UNCHANGED <<monVars, engVars, orchVars, pnlVars, svcVars, raceVars, busVars, subVars, idVars, taskVars, fpVars, calcVars, loopVars, checkVars>>

\* The loop task running over two connected sessions; the venues of some of
\* them never answer a call.
StallInit ==
    /\ MonIdle
    /\ EngIdle
    /\ OrchIdle
    /\ PnlIdle
    /\ SvcIdle
    /\ CheckIdle
    /\ LoopIdle
    /\ CalcIdle
    /\ FpIdle
    /\ TaskIdle
    /\ IdIdle
    /\ RaceIdle
    /\ BusIdle
    /\ SubIdle
    /\ monitoring_sessions = TwoSessions.rows
    /\ connectors = TwoSessions.connectors
    /\ active_sessions = TwoSessions.active_sessions
    /\ adapters = TwoSessions.adapters
    /\ _monitoring = TRUE
    /\ _monitor_task = "running"
    /\ session_ids = <<>>
    /\ tick_snapshot = <<>>
    /\ checked = {}
    /\ tick_raised = {}
    /\ last_raised = {}
    /\ poll_ticks = 0
    /\ mon_call = NoCall
    /\ call_phase = "idle"
    /\ never_returns \in SUBSET ConnectorIds(TwoSessions.connectors)
    /\ waited = 0
    /\ last_polled = 0

StallNext ==
    \/ VenueCall
    \/ VenueDelay
    \/ VenueReturns
    \/ StallSleep

\* The event loop runs the loop task whenever it is ready, and a venue that
\* answers does so eventually.
SpecStall ==
    /\ StallInit
    /\ [][StallNext]_vars
    /\ WF_vars(VenueCall)
    /\ WF_vars(VenueReturns)
    /\ WF_vars(StallSleep)

\* C25: a session whose venue answers is polled infinitely often, whatever
\* the venues of the other sessions do.
C25_OthersStillPolled ==
    \A session_id \in ConnectorIds(TwoSessions.connectors) :
        []<>(session_id \in never_returns \/ last_polled = session_id)

(***************************************************************************)
(* The event ids of _create_order_event and _create_position_event         *)
(***************************************************************************)
\* datetime.utcnow() at the two calls.
EventTimes == {0, 1}

\* Two observations of the same kind: an order, or a position, as a
\* session's venue reported it at some time.
EventInputs ==
    { <<a, b>> : a \in [kind : {"order"}, session : {"s1", "s2"},
                        item : OrderUniverse, t : EventTimes],
                 b \in [kind : {"order"}, session : {"s1", "s2"},
                        item : OrderUniverse, t : EventTimes] }
    \cup
    { <<a, b>> : a \in [kind : {"position"}, session : {"s1", "s2"},
                        item : PositionUniverse, t : EventTimes],
                 b \in [kind : {"position"}, session : {"s1", "s2"},
                        item : PositionUniverse, t : EventTimes] }

\* _check_orders reaching _create_order_event for the next observation.
CreateOrderEvent ==
    /\ Len(id_events) < Len(id_inputs)
    /\ LET in == id_inputs[Len(id_events) + 1]
       IN  /\ in.kind = "order"
           /\ id_events' = Append(id_events,
                  _create_order_event(MonitoringSession(in.session), in.item, in.t))
    /\ UNCHANGED id_inputs
    /\ UNCHANGED <<monVars, engVars, orchVars, pnlVars, svcVars, sessVars, raceVars, busVars, subVars, stallVars, taskVars, fpVars, calcVars, loopVars, checkVars>>

\* _check_positions reaching _create_position_event for the next observation.
CreatePositionEvent ==
    /\ Len(id_events) < Len(id_inputs)
    /\ LET in == id_inputs[Len(id_events) + 1]
       IN  /\ in.kind = "position"
           /\ \E is_new \in BOOLEAN :
                id_events' = Append(id_events,
                    _create_position_event(MonitoringSession(in.session), in.item,
                                           is_new, in.t))
    /\ UNCHANGED id_inputs
    /\ UNCHANGED <<monVars, engVars, orchVars, pnlVars, svcVars, sessVars, raceVars, busVars, subVars, stallVars, taskVars, fpVars, calcVars, loopVars, checkVars>>

EventIdInit ==
    /\ MonIdle
    /\ EngIdle
    /\ OrchIdle
    /\ PnlIdle
    /\ SvcIdle
    /\ CheckIdle
    /\ LoopIdle
    /\ CalcIdle
    /\ FpIdle
    /\ TaskIdle
    /\ SessIdle
    /\ RaceIdle
    /\ BusIdle
    /\ SubIdle
    /\ StallIdle
    /\ id_inputs \in EventInputs
    /\ id_events = <<>>

EventIdNext ==
    \/ CreateOrderEvent
    \/ CreatePositionEvent

SpecEventId == EventIdInit /\ [][EventIdNext]_vars

\* (venue, order or position id, status) of an event; the status of a
\* position event is its kind (opened, updated, closed).
Triple(event) ==
    <<event.exchange, event.order_id,
      IF event.order_type = "position" THEN event.event_type ELSE event.raw_status>>

\* C27: two events have the same event_id exactly when they have the same
\* (venue, order/position id, status), whatever the times they were created at.
C27_EventIdFromTriple ==
    Len(id_events) = 2 =>
        ((Triple(id_events[1]) = Triple(id_events[2]))
            <=> (id_events[1].event_id = id_events[2].event_id))

(***************************************************************************)
(* CopyTradingEngine: the tasks of _event_listener running concurrently    *)
(***************************************************************************)
\* Two events of trader t1, e1 delivered before e2.
TaskEvents == <<"e1", "e2">>

\* total_copied_trades = Column(Integer, default=0)
InitialCopied == 0

\* The followers select of _process_trade_event for trader t1.
CopyingFollowers ==
    SelectSeq(FollowerRows, LAMBDA f : f.trader_id = "t1" /\ f.is_copying /\ f.is_active)

\* The for loop of _process_trade_event moving on from its i-th follower.
next_follower(task) ==
    [task EXCEPT !.i = task.i + 1,
                 !.pc = IF task.i + 1 > Len(task.followers) THEN "done" ELSE "config"]

\* _event_listener: get_message returns the next event and
\* asyncio.create_task(self._process_trade_event(...)) starts its task; the
\* listener does not await it.
ReceiveEvent ==
    /\ listener_queue # <<>>
    /\ event_tasks' = [event_tasks EXCEPT ![Head(listener_queue)].pc = "followers"]
    /\ listener_queue' = Tail(listener_queue)
    /\ UNCHANGED <<copied_counts, venue_orders>>
    /\ UNCHANGED <<monVars, engVars, orchVars, pnlVars, svcVars, sessVars, raceVars, busVars, subVars, stallVars, idVars, fpVars, calcVars, loopVars, checkVars>>

\* _process_trade_event up to the return of its followers select.
SelectFollowers ==
    /\ \E e \in DOMAIN event_tasks :
         /\ event_tasks[e].pc = "followers"
         /\ event_tasks' = [event_tasks EXCEPT ![e] = [pc |-> IF CopyingFollowers = <<>> THEN "done"
                                                  ELSE "config",
                                           i |-> 1, followers |-> CopyingFollowers,
                                           loaded |-> 0]]
    /\ UNCHANGED <<listener_queue, copied_counts, venue_orders>>
    /\ UNCHANGED <<monVars, engVars, orchVars, pnlVars, svcVars, sessVars, raceVars, busVars, subVars, stallVars, idVars, fpVars, calcVars, loopVars, checkVars>>

\* The config select for the task's current follower: the row is loaded
\* into the task's own session, total_copied_trades as committed just then.
SelectConfig ==
    /\ \E e \in DOMAIN event_tasks :
         /\ event_tasks[e].pc = "config"
         /\ event_tasks' = [event_tasks EXCEPT ![e].pc = "order",
                         ![e].loaded = copied_counts[event_tasks[e].followers[event_tasks[e].i].id]]
    /\ UNCHANGED <<listener_queue, copied_counts, venue_orders>>
    /\ UNCHANGED <<monVars, engVars, orchVars, pnlVars, svcVars, sessVars, raceVars, busVars, subVars, stallVars, idVars, fpVars, calcVars, loopVars, checkVars>>

\* _execute_copy_trade up to the return of connector.create_order: the
\* venue takes the order, or the call raises and the follower is left.
PlaceReplicaOrder ==
    /\ \E e \in DOMAIN event_tasks, outcome \in {"ok", "raise"} :
         /\ event_tasks[e].pc = "order"
         /\ IF outcome = "ok"
            THEN /\ venue_orders' = Append(venue_orders,
                        [source_event |-> e,
                         follower_rel_id |-> event_tasks[e].followers[event_tasks[e].i].id])
                 /\ event_tasks' = [event_tasks EXCEPT ![e].pc = "commit"]
            ELSE /\ event_tasks' = [event_tasks EXCEPT ![e] = next_follower(event_tasks[e])]
                 /\ UNCHANGED venue_orders
    /\ UNCHANGED <<listener_queue, copied_counts>>
    /\ UNCHANGED <<monVars, engVars, orchVars, pnlVars, svcVars, sessVars, raceVars, busVars, subVars, stallVars, idVars, fpVars, calcVars, loopVars, checkVars>>

\* config.total_copied_trades += 1 on the loaded row and session.commit():
\* the UPDATE writes the loaded value plus one.
CommitCopy ==
    /\ \E e \in DOMAIN event_tasks :
         /\ event_tasks[e].pc = "commit"
         /\ copied_counts' = [copied_counts EXCEPT
                                 ![event_tasks[e].followers[event_tasks[e].i].id] = event_tasks[e].loaded + 1]
         /\ event_tasks' = [event_tasks EXCEPT ![e] = next_follower(event_tasks[e])]
    /\ UNCHANGED <<listener_queue, venue_orders>>
    /\ UNCHANGED <<monVars, engVars, orchVars, pnlVars, svcVars, sessVars, raceVars, busVars, subVars, stallVars, idVars, fpVars, calcVars, loopVars, checkVars>>

\* The bus has delivered e1 and e2 to the subscription; no task runs yet.
TaskInit ==
    /\ MonIdle
    /\ EngIdle
    /\ OrchIdle
    /\ PnlIdle
    /\ SvcIdle
    /\ CheckIdle
    /\ LoopIdle
    /\ CalcIdle
    /\ FpIdle
    /\ SessIdle
    /\ RaceIdle
    /\ BusIdle
    /\ SubIdle
    /\ StallIdle
    /\ IdIdle
    /\ listener_queue = TaskEvents
    /\ event_tasks = [e \in {TaskEvents[n] : n \in DOMAIN TaskEvents} |->
                  [pc |-> "none", i |-> 1, followers |-> <<>>, loaded |-> 0]]
    /\ copied_counts = [f \in {CopyingFollowers[n].id : n \in DOMAIN CopyingFollowers}
                            |-> InitialCopied]
    /\ venue_orders = <<>>

TaskNext ==
    \/ ReceiveEvent
    \/ SelectFollowers
    \/ SelectConfig
    \/ PlaceReplicaOrder
    \/ CommitCopy

SpecTasks == TaskInit /\ [][TaskNext]_vars

\* C28: for every follower, the replica order for e1 is placed before the
\* replica order for e2.
C28_ReplicasInBusOrder ==
    \A i \in DOMAIN venue_orders : \A j \in DOMAIN venue_orders :
        (/\ venue_orders[i].follower_rel_id = venue_orders[j].follower_rel_id
         /\ venue_orders[i].source_event = TaskEvents[1]
         /\ venue_orders[j].source_event = TaskEvents[2]) => i < j

\* The replica orders the venues took for a follower relationship.
PlacedFor(follower_rel_id) ==
    {i \in DOMAIN venue_orders : venue_orders[i].follower_rel_id = follower_rel_id}

\* Every received event's task has finished and none is waiting.
AllTasksDone ==
    /\ listener_queue = <<>>
    /\ \A e \in DOMAIN event_tasks : event_tasks[e].pc = "done"

\* C30: once the tasks have finished, total_copied_trades of every
\* relationship is its initial value plus the number of replica orders
\* placed for it.
C30_CountMatchesOrders ==
    AllTasksDone =>
        \A f \in DOMAIN copied_counts :
            copied_counts[f] = InitialCopied + Cardinality(PlacedFor(f))


(***************************************************************************)
(* TradeMonitor._check_orders on batches holding a malformed order         *)
(***************************************************************************)
\* A ccxt order structure without one of its keys.
Without(order, key) == [k \in DOMAIN order \ {key} |-> order[k]]

\* Two well-formed orders and one the venue returned without 'status'.
RawOrderUniverse ==
    { Order("o1", "BTC/USDT", "closed", 2),
      Order("o3", "BTC/USDT", "open", 0),
      Without(Order("o4", "BTC/USDT", "closed", 2), "status") }

MaxBatch == 3

RawOrderBatches ==
    UNION { [1..n -> RawOrderUniverse] : n \in 0..MaxBatch }

BatchNext ==
    \/ CheckOrders(RawOrderBatches)
    \/ CheckPositions(NoPositionBatches)
    \/ Sleep({0})

SpecBatch == MonInit /\ [][BatchNext]_vars

WellFormed(order) == has_keys(order, {"id", "symbol", "status", "side"})

\* C33: a malformed order of a batch stops only that order: after
\* _check_orders every well-formed order of the batch that passes the symbol
\* filter, before or after the malformed one, has its event published by
\* this call or was published by an earlier one.
C33_OnlyMalformedSkipped ==
    phase = "positions" =>
        \A i \in DOMAIN ord_obs :
            LET order == ord_obs[i]
                session_obj == MonitoringSession(Head(loop_ids))
            IN  (/\ WellFormed(order)
                 /\ session_obj.symbols # {} => order.symbol \in session_obj.symbols)
                  => \/ \E k \in DOMAIN published :
                          EventKey(published[k].data)
                            = <<session_obj.exchange, order.id, order.status>>
                     \/ <<session_obj.exchange, order.id, order.status>> \in DOMAIN last_emit

(***************************************************************************)
(* PnLCalculator.calculate_performance / calculate_from_ccxt_trades on     *)
(* raw trade records                                                       *)
(***************************************************************************)
\* A value Decimal(str(...)) cannot parse (None, a non-numeric string).
NotANumber == <<0, 0>>

\* The 'fee' of a raw trade: null, or a value with a cost.
NullFee == [null |-> TRUE, cost |-> R(0)]
Fee(cost) == [null |-> FALSE, cost |-> cost]

RawTrade(id, side, quantity, price, fee, timestamp) ==
    [id |-> id, symbol |-> "BTC/USDT", side |-> side, quantity |-> quantity,
     price |-> price, fee |-> fee, timestamp |-> timestamp]

\* Two buys made in the same millisecond at different prices, a sell, a sell
\* whose fee is null, and a sell whose amount is not a number.
RawTradeUniverse ==
    { RawTrade("r1", "buy", R(1), R(40000), Fee(R(40)), 1000),
      RawTrade("r2", "buy", R(1), R(42000), Fee(R(0)), 1000),
      RawTrade("r3", "sell", R(1), R(45000), Fee(R(45)), 2000),
      RawTrade("r4", "sell", R(1), R(45000), NullFee, 3000),
      RawTrade("r5", "sell", NotANumber, R(45000), Fee(R(0)), 3000) }

MaxRaw == 3

\* Lists of distinct raw trades.
RawTradeLists ==
    UNION { { u \in [1..n -> RawTradeUniverse] :
                \A i, j \in 1..n : u[i] = u[j] => i = j } : n \in 0..MaxRaw }

\* The TradeExecution built from a raw trade whose fields parse.
execution_of(t, fee) ==
    [id |-> t.id, symbol |-> t.symbol, side |-> t.side, quantity |-> t.quantity,
     price |-> t.price, fee |-> fee, timestamp |-> t.timestamp]

\* The conversion loop of calculate_from_ccxt_trades: t.get('fee', {}) is
\* None for a null fee and None.get raises; every exception skips the trade.
RECURSIVE ccxt_executions(_)
ccxt_executions(trades) ==
    IF trades = <<>> THEN <<>>
    ELSE LET t == Head(trades)
         IN  IF t.fee.null \/ t.quantity = NotANumber \/ t.price = NotANumber
             THEN ccxt_executions(Tail(trades))
             ELSE <<execution_of(t, t.fee.cost)>> \o ccxt_executions(Tail(trades))

\* _normalize_trades: fee = Decimal(str(get(t, 'fee') or 0)).
RECURSIVE _normalize_trades(_)
_normalize_trades(raw) ==
    IF raw = <<>> THEN <<>>
    ELSE LET t == Head(raw)
         IN  IF t.quantity = NotANumber \/ t.price = NotANumber
             THEN _normalize_trades(Tail(raw))
             ELSE <<execution_of(t, IF t.fee.null THEN R(0) ELSE t.fee.cost)>>
                    \o _normalize_trades(Tail(raw))

\* list.sort(key=lambda x: x.timestamp): stable, equal timestamps keep the
\* order they had. The place of the i-th execution in the sorted list.
sorted_index(execs, i) ==
    Cardinality({j \in DOMAIN execs :
                    \/ execs[j].timestamp < execs[i].timestamp
                    \/ execs[j].timestamp = execs[i].timestamp /\ j < i}) + 1

sort_by_timestamp(execs) ==
    [k \in DOMAIN execs |->
        execs[CHOOSE i \in DOMAIN execs : sorted_index(execs, i) = k]]

\* What a call hands back and leaves in self.positions; st is what
\* _process_executions made of the sorted executions.
calculation(method, input, execs, st, trader_id, t) ==
    [method |-> method, input |-> input, executions |-> execs,
     closed_trades |-> st.closed_trades, positions |-> st.positions,
     score |-> _calculate_metrics(st.closed_trades, trader_id, t)]

\* The orders in which a caller may hand over the same n records.
Orderings(n) == {p \in [1..n -> 1..n] : \A i, j \in 1..n : p[i] = p[j] => i = j}

Reordered(seq, p) == [i \in DOMAIN seq |-> seq[p[i]]]

\* PnLCalculator.calculate_performance called with the records in some
\* order: _normalize_trades, sort, _process_executions, _calculate_metrics.
\* The clock is held still.
CalculatePerformance ==
    /\ Len(calc_results) < MaxCalls
    /\ \E p \in Orderings(Len(raw_trades)) :
       \E input \in {Reordered(raw_trades, p)} :
       \E normalized \in {_normalize_trades(input)} :
       \E execs \in {sort_by_timestamp(normalized)} :
       \E st \in {_process_executions(execs)} :
         /\ calc_results' = Append(calc_results,
                calculation("calculate_performance", input, execs, st, "t1", 0))
         /\ calc_positions' = st.positions
    /\ UNCHANGED raw_trades
    /\ UNCHANGED <<monVars, engVars, orchVars, pnlVars, svcVars, sessVars, raceVars, busVars, subVars, stallVars, idVars, taskVars, fpVars, loopVars, checkVars>>
\* PnLCalculator.calculate_from_ccxt_trades called with the records in some
\* order: the conversion loop, sort, _process_executions,
\* _calculate_metrics.
CalculateFromCcxtTrades ==
    /\ Len(calc_results) < MaxCalls
    /\ \E p \in Orderings(Len(raw_trades)) :
       \E input \in {Reordered(raw_trades, p)} :
       \E converted \in {ccxt_executions(input)} :
       \E execs \in {sort_by_timestamp(converted)} :
       \E st \in {_process_executions(execs)} :
         /\ calc_results' = Append(calc_results,
                calculation("calculate_from_ccxt_trades", input, execs, st, "t1", 0))
         /\ calc_positions' = st.positions
    /\ UNCHANGED raw_trades
    /\ UNCHANGED <<monVars, engVars, orchVars, pnlVars, svcVars, sessVars, raceVars, busVars, subVars, stallVars, idVars, taskVars, fpVars, loopVars, checkVars>>
CalcInit ==
    /\ MonIdle
    /\ EngIdle
    /\ OrchIdle
    /\ PnlIdle
    /\ SvcIdle
    /\ CheckIdle
    /\ LoopIdle
    /\ FpIdle
    /\ TaskIdle
    /\ IdIdle
    /\ SessIdle
    /\ RaceIdle
    /\ BusIdle
    /\ SubIdle
    /\ StallIdle
    /\ raw_trades \in RawTradeLists
    /\ calc_positions = [s \in {} |-> <<>>]
    /\ calc_results = <<>>

CalcNext == CalculatePerformance \/ CalculateFromCcxtTrades

SpecCalc == CalcInit /\ [][CalcNext]_vars

SameResult(a, b) ==
    /\ a.closed_trades = b.closed_trades
    /\ a.positions = b.positions
    /\ SameMetrics(a.score, b.score)

\* C34: each of the two entry points returns the same ClosedTrades, open lots
\* and ReputationScore for every order of the same input records, whatever
\* was calculated on the instance before.
C34_OrderOfInputIrrelevant ==
    \A i, j \in DOMAIN calc_results :
        calc_results[i].method = calc_results[j].method
            => SameResult(calc_results[i], calc_results[j])

(***************************************************************************)
(* One fill of the lead trader, from the venue to the replica orders       *)
(***************************************************************************)
\* The fill: order o1 for 2 BTC/USDT, filled in full.
FilledOrder == Order("o1", "BTC/USDT", "closed", 2)

\* The trader's position after the fill: 3 held before plus the 2 filled.
PositionAfterFill == Position("BTC/USDT", 5, 100)

FillOrderBatches == {<<>>, <<FilledOrder>>}

FillPositionBatches == {<<>>, <<PositionAfterFill>>}

\* Redis pub/sub hands a message published on trade_events:* to the engine's
\* listener, once.
Forward ==
    /\ \E i \in DOMAIN published :
         LET e == published[i].data
         IN  /\ e \notin bus
             /\ e.event_id \notin DOMAIN delivered
             /\ bus' = bus \cup {e}
             /\ delivered' = [x \in DOMAIN delivered \cup {e.event_id} |->
                                 IF x = e.event_id THEN 0 ELSE delivered[x]]
    /\ UNCHANGED <<configs, replica_orders, follower_rows, eng_obs>>
    /\ UNCHANGED <<monVars, orchVars, pnlVars, svcVars, sessVars, raceVars, busVars, subVars, stallVars, idVars, taskVars, fpVars, calcVars, loopVars, checkVars>>

FillNext ==
    \/ CheckOrders(FillOrderBatches)
    \/ CheckPositions(FillPositionBatches)
    \/ Sleep({0})
    \/ Forward
    \/ Deliver({"ok"}, 1)

\* The monitor at its first poll, the engine with its followers and configs.
FillInit ==
    /\ MonIdle
    /\ OrchIdle
    /\ PnlIdle
    /\ SvcIdle
    /\ CheckIdle
    /\ LoopIdle
    /\ CalcIdle
    /\ FpIdle
    /\ TaskIdle
    /\ IdIdle
    /\ SessIdle
    /\ RaceIdle
    /\ BusIdle
    /\ SubIdle
    /\ StallIdle
    /\ bus = {}
    /\ delivered = [e \in {} |-> 0]
    /\ configs = DefaultConfigs
    /\ replica_orders = <<>>
    /\ follower_rows = FollowerRows
    /\ eng_obs = NoDelivery

\* The monitor and the engine on one bus, every message delivered once.
SpecFill == FillInit /\ [][FillNext]_vars

\* The replica orders placed for a follower.
ReplicasOf(follower_id) ==
    {i \in DOMAIN replica_orders : replica_orders[i].follower_id = follower_id}

\* C35: the fill, seen by the monitor as a filled order and as a changed
\* position, gives every follower at most one replica order, and its amount
\* is the copy amount of the filled quantity.
C35_OneReplicaPerFill ==
    \A i \in DOMAIN replica_orders :
        LET r == replica_orders[i]
        IN  /\ Cardinality(ReplicasOf(r.follower_id)) <= 1
            /\ r.amount = _calculate_copy_amount(configs[r.follower_rel_id],
                              [quantity |-> FilledOrder.filled,
                               price |-> FilledOrder.price])

(***************************************************************************)
(* TradeMonitor._check_orders on a venue that numbers its orders per       *)
(* market                                                                  *)
(***************************************************************************)
\* Order o1 of the BTC/USDT market, order o1 of the ETH/USDT market, both
\* filled, and a canceled order.
ScopeOrderUniverse ==
    { Order("o1", "BTC/USDT", "closed", 2),
      Order("o1", "ETH/USDT", "closed", 2),
      Order("o2", "ETH/USDT", "canceled", 0) }

ScopeOrderBatches ==
    {<<>>} \cup {<<o>> : o \in ScopeOrderUniverse}
           \cup {<<o1, o2>> : o1 \in ScopeOrderUniverse, o2 \in ScopeOrderUniverse}

ScopeNext ==
    \/ CheckOrders(ScopeOrderBatches)
    \/ CheckPositions(NoPositionBatches)
    \/ Sleep(OrderDelays)

SpecScope == MonInit /\ [][ScopeNext]_vars

\* C36: the dedup of an order is scoped to that order: when a _check_orders
\* call publishes for a (venue, order id, status), every observed order with
\* that id and status that passes the symbol filter has an event of its own
\* trader and symbol; none is suppressed by the marker of another order.
C36_DedupScopedToOrder ==
    phase = "positions" =>
        \A i \in DOMAIN ord_obs :
            LET order == ord_obs[i]
                session_obj == MonitoringSession(Head(loop_ids))
                k == <<session_obj.exchange, order.id, order.status>>
            IN  (/\ PassesFilter(session_obj, order.symbol)
                 /\ k \in DOMAIN last_emit
                 /\ last_emit[k] = now)
                  => \E j \in DOMAIN published :
                        /\ published[j].data.order_id = order.id
                        /\ published[j].data.raw_status = order.status
                        /\ published[j].data.symbol = order.symbol
                        /\ published[j].data.trader_id = session_obj.trader_id

(***************************************************************************)
(* TradeMonitor: start_monitoring and stop_monitoring as coroutines, with  *)
(* the _monitoring_loop tasks they create                                  *)
(***************************************************************************)
MaxStarts == 3

MaxPolls == 3

\* start_monitoring up to its first await: returns at once when _monitoring
\* is set, else sets it and is suspended in _load_active_sessions.
StartCall ==
    /\ start_calls < MaxStarts
    /\ start_calls' = start_calls + 1
    /\ stop_returned' = FALSE
    /\ IF _monitoring
       THEN UNCHANGED <<_monitoring, starts_waiting>>
       ELSE /\ _monitoring' = TRUE
            /\ starts_waiting' = starts_waiting + 1
    /\ UNCHANGED <<loop_tasks, task_ref, loaded, venue_polls>>
    /\ UNCHANGED <<monitoring_sessions, connectors, active_sessions, adapters, _monitor_task, session_ids, tick_snapshot, checked, tick_raised, last_raised, poll_ticks, mon_call>>
    /\ UNCHANGED <<monVars, engVars, orchVars, pnlVars, svcVars, raceVars, busVars, subVars, stallVars, idVars, taskVars, fpVars, calcVars, checkVars>>
\* A suspended start_monitoring goes on: the sessions are loaded and
\* self._monitor_task = asyncio.create_task(self._monitoring_loop()).
StartResume ==
    /\ starts_waiting > 0
    /\ starts_waiting' = starts_waiting - 1
    /\ loaded' = TRUE
    /\ loop_tasks' = Append(loop_tasks, [state |-> "running", pc |-> "while"])
    /\ task_ref' = Len(loop_tasks) + 1
    /\ UNCHANGED <<start_calls, venue_polls, stop_returned>>
    /\ UNCHANGED sessVars
    /\ UNCHANGED checkVars
    /\ UNCHANGED <<monVars, engVars, orchVars, pnlVars, svcVars, raceVars, busVars, subVars, stallVars, idVars, taskVars, fpVars, calcVars, checkVars>>
\* Task.cancel() on a task: a task that ended stays as it is.
cancel_task(tasks, k) ==
    IF k = 0 \/ tasks[k].state # "running" THEN tasks
    ELSE [tasks EXCEPT ![k].state = "cancelled"]

\* stop_monitoring: the flag is cleared, self._monitor_task is cancelled and
\* awaited, the connectors are closed and the registries cleared.
StopCall ==
    /\ _monitoring' = FALSE
    /\ loop_tasks' = cancel_task(loop_tasks, task_ref)
    /\ loaded' = FALSE
    /\ stop_returned' = TRUE
    /\ \/ _monitoring
       \/ loaded
       \/ ~stop_returned
       \/ loop_tasks' # loop_tasks
    /\ UNCHANGED <<start_calls, starts_waiting, task_ref, venue_polls>>
    /\ UNCHANGED <<monitoring_sessions, connectors, active_sessions, adapters, _monitor_task, session_ids, tick_snapshot, checked, tick_raised, last_raised, poll_ticks, mon_call>>
    /\ UNCHANGED <<monVars, engVars, orchVars, pnlVars, svcVars, raceVars, busVars, subVars, stallVars, idVars, taskVars, fpVars, calcVars, checkVars>>
\* A loop task at `while self._monitoring`: it ends, or lists the connectors
\* and enters _check_activity with the connector it found (fetch_orders), or
\* finds none and sleeps.
LoopWhile ==
    /\ \E k \in DOMAIN loop_tasks :
         /\ loop_tasks[k].state = "running"
         /\ loop_tasks[k].pc = "while"
         /\ IF ~_monitoring
            THEN /\ loop_tasks' = [loop_tasks EXCEPT ![k].state = "done"]
                 /\ UNCHANGED venue_polls
            ELSE IF loaded
            THEN /\ venue_polls < MaxPolls
                 /\ venue_polls' = venue_polls + 1
                 /\ loop_tasks' = [loop_tasks EXCEPT ![k].pc = "check_positions"]
            ELSE /\ loop_tasks' = [loop_tasks EXCEPT ![k].pc = "sleep"]
                 /\ UNCHANGED venue_polls
    /\ UNCHANGED <<start_calls, starts_waiting, task_ref, loaded, stop_returned>>
    /\ UNCHANGED sessVars
    /\ UNCHANGED checkVars
    /\ UNCHANGED <<monVars, engVars, orchVars, pnlVars, svcVars, raceVars, busVars, subVars, stallVars, idVars, taskVars, fpVars, calcVars, checkVars>>
\* A loop task inside _check_activity, after _check_orders returned:
\* _check_positions calls fetch_positions on the connector it was given.
LoopCheckPositions ==
    /\ venue_polls < MaxPolls
    /\ \E k \in DOMAIN loop_tasks :
         /\ loop_tasks[k].state = "running"
         /\ loop_tasks[k].pc = "check_positions"
         /\ loop_tasks' = [loop_tasks EXCEPT ![k].pc = "sleep"]
    /\ venue_polls' = venue_polls + 1
    /\ UNCHANGED <<start_calls, starts_waiting, task_ref, loaded, stop_returned>>
    /\ UNCHANGED sessVars
    /\ UNCHANGED checkVars
    /\ UNCHANGED <<monVars, engVars, orchVars, pnlVars, svcVars, raceVars, busVars, subVars, stallVars, idVars, taskVars, fpVars, calcVars, checkVars>>
\* asyncio.sleep(self._poll_interval) of a loop task is over.
LoopWake ==
    /\ \E k \in DOMAIN loop_tasks :
         /\ loop_tasks[k].state = "running"
         /\ loop_tasks[k].pc = "sleep"
         /\ loop_tasks' = [loop_tasks EXCEPT ![k].pc = "while"]
    /\ UNCHANGED <<start_calls, starts_waiting, task_ref, loaded, venue_polls, stop_returned>>
    /\ UNCHANGED sessVars
    /\ UNCHANGED checkVars
    /\ UNCHANGED <<monVars, engVars, orchVars, pnlVars, svcVars, raceVars, busVars, subVars, stallVars, idVars, taskVars, fpVars, calcVars, checkVars>>
LoopInit ==
    /\ MonIdle
    /\ EngIdle
    /\ OrchIdle
    /\ PnlIdle
    /\ SvcIdle
    /\ CheckIdle
    /\ CalcIdle
    /\ FpIdle
    /\ TaskIdle
    /\ IdIdle
    /\ SessIdle
    /\ RaceIdle
    /\ BusIdle
    /\ SubIdle
    /\ StallIdle
    /\ LoopIdle

LoopNext ==
    \/ StartCall
    \/ StartResume
    \/ StopCall
    \/ LoopWhile
    \/ LoopCheckPositions
    \/ LoopWake

SpecStartStop == LoopInit /\ [][LoopNext]_vars

RunningTasks == {k \in DOMAIN loop_tasks : loop_tasks[k].state = "running"}

\* C38: whatever the interleaving of start_monitoring and stop_monitoring,
\* at most one _monitoring_loop task is running, and once a stop_monitoring
\* returned, and until start_monitoring is called again, no loop polls a
\* venue.
C38_OneLoopNoPollAfterStop ==
    [][/\ Cardinality(RunningTasks') <= 1
       /\ (stop_returned /\ stop_returned') => venue_polls' = venue_polls]_vars

(***************************************************************************)
(* TradeMonitor: remove_session while the loop is inside _check_activity   *)
(***************************************************************************)
\* The loop takes the next session id: it is skipped when its connector or
\* session object is gone, else _check_activity is entered with both and
\* _check_orders calls fetch_orders on the connector.
BeginCheck ==
    /\ _monitor_task = "running"
    /\ session_ids # <<>>
    /\ check_pc = "idle"
    /\ LET session_id == Head(session_ids)
       IN  IF session_id \in ConnectorIds(connectors) /\ session_id \in active_sessions
           THEN /\ check_pc' = "fetch_orders"
                /\ check_session' = session_id
                /\ calls_for' = [calls_for EXCEPT ![session_id] = @ + 1]
                /\ UNCHANGED session_ids
           ELSE /\ session_ids' = Tail(session_ids)
                /\ UNCHANGED <<check_pc, check_session, calls_for>>
    /\ UNCHANGED events_for
    /\ UNCHANGED <<monitoring_sessions, connectors, active_sessions, adapters, _monitoring, _monitor_task, tick_snapshot, checked, tick_raised, last_raised, poll_ticks, mon_call>>
    /\ UNCHANGED <<monVars, engVars, orchVars, pnlVars, svcVars, raceVars, busVars, subVars, stallVars, idVars, taskVars, fpVars, calcVars, loopVars>>
\* fetch_orders returns: _check_orders publishes an event per new order (n of
\* them; none when the call raised), then _check_positions calls
\* fetch_positions on the same connector.
OrdersFetched ==
    /\ check_pc = "fetch_orders"
    /\ \E n \in {0, 1} :
         events_for' = [events_for EXCEPT ![check_session] = @ + n]
    /\ calls_for' = [calls_for EXCEPT ![check_session] = @ + 1]
    /\ check_pc' = "fetch_positions"
    /\ UNCHANGED <<check_session, session_ids>>
    /\ UNCHANGED <<monitoring_sessions, connectors, active_sessions, adapters, _monitoring, _monitor_task, tick_snapshot, checked, tick_raised, last_raised, poll_ticks, mon_call>>
    /\ UNCHANGED <<monVars, engVars, orchVars, pnlVars, svcVars, raceVars, busVars, subVars, stallVars, idVars, taskVars, fpVars, calcVars, loopVars>>
\* fetch_positions returns: _check_positions publishes an event per changed
\* position and _check_activity is over.
PositionsFetched ==
    /\ check_pc = "fetch_positions"
    /\ \E n \in {0, 1} :
         events_for' = [events_for EXCEPT ![check_session] = @ + n]
    /\ check_pc' = "idle"
    /\ session_ids' = Tail(session_ids)
    /\ UNCHANGED <<check_session, calls_for>>
    /\ UNCHANGED <<monitoring_sessions, connectors, active_sessions, adapters, _monitoring, _monitor_task, tick_snapshot, checked, tick_raised, last_raised, poll_ticks, mon_call>>
    /\ UNCHANGED <<monVars, engVars, orchVars, pnlVars, svcVars, raceVars, busVars, subVars, stallVars, idVars, taskVars, fpVars, calcVars, loopVars>>
RemoveInit ==
    /\ MonIdle
    /\ EngIdle
    /\ OrchIdle
    /\ PnlIdle
    /\ SvcIdle
    /\ CalcIdle
    /\ FpIdle
    /\ TaskIdle
    /\ IdIdle
    /\ RaceIdle
    /\ BusIdle
    /\ SubIdle
    /\ StallIdle
    /\ LoopIdle
    /\ CheckIdle
    /\ monitoring_sessions = <<>>
    /\ connectors = <<>>
    /\ active_sessions = {}
    /\ adapters = <<>>
    /\ _monitoring = TRUE
    /\ _monitor_task = "running"
    /\ session_ids = <<>>
    /\ tick_snapshot = <<>>
    /\ checked = {}
    /\ tick_raised = {}
    /\ last_raised = {}
    /\ poll_ticks = 0
    /\ mon_call = NoCall

RemoveNext ==
    \/ AddSession
    \/ RemoveSession
    \/ BeginCheck
    \/ OrdersFetched
    \/ PositionsFetched
    \/ LoopSleep

\* The loop task polling, suspended at each venue call, while sessions are
\* added and removed.
SpecRemove == RemoveInit /\ [][RemoveNext]_vars

\* C39: once remove_session(s) returned, no TradeEvent is published for s
\* and no call is made on its adapter.
C39_NothingAfterRemove ==
    [][\A s \in DOMAIN monitoring_sessions :
          ~monitoring_sessions[s].is_active =>
              /\ events_for'[s] = events_for[s]
              /\ calls_for'[s] = calls_for[s]]_vars
====
